---- MODULE Spec2Model ----
(***************************************************************************)
(* Model of the Devpost page extraction engine, src/src/parser.py.         *)
(*                                                                         *)
(* A string is a sequence of atoms.  An atom is either one whitespace      *)
(* character or an indivisible piece of text without whitespace runs of    *)
(* its own (a word, or a canonical section name).  The parsed document is  *)
(* a tree of nodes; a node is addressed by its path, the sequence of child *)
(* indexes leading to it from the root.                                    *)
(***************************************************************************)
EXTENDS Integers, Sequences, FiniteSets, TLC

VARIABLES
    doc,                \* per call: the parsed document (soup)
    pc,                 \* per call: the part of parse_project_page reached
    result,             \* per call: the record under construction
    date_placeholders,  \* per call: the table built by Step A
    ranStepC,           \* per call: whether the document-wide fallback ran
    returned,           \* the first record returned for each document
    stringHasText,      \* whether the installed bs4 gives strings a .text
    text,               \* clean_text alone: the argument of the first call
    cleaned,            \* clean_text alone: the values returned so far
    sf,                 \* submit_form: the position of the call
    uri,                \* submit_form: the argument uri
    ratings,            \* submit_form: the argument ratings
    use_ai,             \* submit_form: the argument use_ai
    page,               \* submit_form: the document the site served, if any
    project_data,       \* submit_form: what fetch_and_parse_project returned
    ai_ratings,         \* submit_form: what generate_ai_ratings returned
    ai_env,             \* the environment generate_ai_ratings ran in
    grade_data,         \* submit_form: the ratings prepared for the form
    posted,             \* the POST requests sent so far
    outcome,            \* submit_form: what the call returned or raised
    uris,               \* batch_submit_forms: the argument uris
    mode,               \* batch_submit_forms: rating, auto_mode and ai_mode
    bpc,                \* batch_submit_forms: the position of the call
    bi,                 \* batch_submit_forms: the iterations completed
    batch_result,       \* batch_submit_forms: result of the current iteration
    results,            \* batch_submit_forms: the dict results
    saved,              \* the file submission_results.json
    calls,              \* the calls of process_uri made so far
    generated           \* generate_ratings: what the call returned or raised

parserVars == <<doc, pc, result, date_placeholders, ranStepC, returned, stringHasText>>
textVars == <<text, cleaned>>

submitVars == <<sf, uri, ratings, use_ai, page, project_data, ai_ratings, ai_env,
                grade_data, posted, outcome>>

batchVars == <<uris, mode, bpc, bi, batch_result, results, saved, calls>>

vars == <<parserVars, textVars, submitVars, batchVars, generated>>

\* what the steps of parse_project_page, and what clean_text alone, leave as is
notParser == <<textVars, submitVars, batchVars, generated>>
notText == <<parserVars, submitVars, batchVars, generated>>
notSubmit == <<parserVars, textVars, batchVars, generated>>

(***************************************************************************)
(* Strings                                                                 *)
(***************************************************************************)
WS == {" ", "\n", "\t"}

\* the value standing for Python's None where a string is expected
NoString == <<"<None>">>

RECURSIVE LStrip(_)
LStrip(s) == IF s # <<>> /\ Head(s) \in WS THEN LStrip(Tail(s)) ELSE s

RECURSIVE RStrip(_)
RStrip(s) ==
    IF s # <<>> /\ s[Len(s)] \in WS THEN RStrip(SubSeq(s, 1, Len(s) - 1)) ELSE s

\* str.strip()
Strip(s) == RStrip(LStrip(s))

RECURSIVE CollapseWS(_)

\* CollapseWS with the pattern \s in place of \s+
CollapseWSEach(s) == [i \in 1..Len(s) |-> IF s[i] \in WS THEN " " ELSE s[i]]

\* re.sub(r'\s+', ' ', text)
CollapseWS(s) ==
    IF s = <<>> THEN <<>>
    ELSE IF Head(s) \in WS THEN <<" ">> \o CollapseWS(LStrip(s))
    ELSE <<Head(s)>> \o CollapseWS(Tail(s))

\* clean_text without the final strip()
clean_text_unstripped(t) == IF t = <<>> \/ t = NoString THEN <<>> ELSE CollapseWS(t)

clean_text(t) == IF t = <<>> \/ t = NoString THEN <<>> ELSE Strip(CollapseWS(t))

\* str.startswith
StartsWith(s, prefix) ==
    Len(s) >= Len(prefix) /\ SubSeq(s, 1, Len(prefix)) = prefix

\* the Python operator "sub in s"
Contains(s, sub) ==
    \E i \in 1..(Len(s) + 1) :
        i + Len(sub) - 1 <= Len(s) /\ SubSeq(s, i, i + Len(sub) - 1) = sub

(***************************************************************************)
(* The document tree built by BeautifulSoup(html_content, 'html.parser')   *)
(***************************************************************************)
NoAttrs == [a \in {} |-> <<>>]

\* a NavigableString
Txt(s) == [tag |-> "#text", cls |-> {}, attrs |-> NoAttrs, kids |-> <<>>, str |-> s]

\* a Tag
El(tag, cls, attrs, kids) ==
    [tag |-> tag, cls |-> cls, attrs |-> attrs, kids |-> kids, str |-> <<>>]

\* the BeautifulSoup object
Soup(kids) == El("[document]", {}, NoAttrs, kids)

IsTag(n) == n.tag # "#text"

\* the value standing for Python's None where a node is expected
None == <<0>>

RECURSIVE NodeAt(_, _)
NodeAt(n, p) == IF p = <<>> THEN n ELSE NodeAt(n.kids[Head(p)], Tail(p))

\* Tag.descendants: the paths of the nodes below the node at p, document order
RECURSIVE Below(_, _)
Below(n, p) ==
    LET F[i \in 0..Len(n.kids)] ==
            IF i = 0 THEN <<>>
            ELSE F[i - 1] \o << p \o <<i>> >> \o Below(n.kids[i], p \o <<i>>)
    IN  F[Len(n.kids)]

Descendants(d, p) == Below(NodeAt(d, p), p)

\* Tag.text / get_text()
RECURSIVE GetText(_)
GetText(n) ==
    IF n.tag = "#text" THEN n.str
    ELSE LET F[i \in 0..Len(n.kids)] ==
                 IF i = 0 THEN <<>> ELSE F[i - 1] \o GetText(n.kids[i])
         IN  F[Len(n.kids)]

TextAt(d, p) == GetText(NodeAt(d, p))

\* Tag.string: the only child if it is a string, else the only child's .string
RECURSIVE StringOf(_)
StringOf(n) ==
    IF Len(n.kids) # 1 THEN NoString
    ELSE IF n.kids[1].tag = "#text" THEN n.kids[1].str
    ELSE StringOf(n.kids[1])

\* first element of a sequence of paths, or None
First(ps) == IF ps = <<>> THEN None ELSE ps[1]

\* PageElement.parents, nearest first, ending with the BeautifulSoup object
Parents(p) == [i \in 1..Len(p) |-> SubSeq(p, 1, Len(p) - i)]

\* PageElement.next_sibling
NextSibling(d, p) ==
    IF p = <<>> THEN None
    ELSE LET par  == SubSeq(p, 1, Len(p) - 1)
             last == p[Len(p)]
         IN  IF last < Len(NodeAt(d, par).kids) THEN par \o <<last + 1>> ELSE None

\* PageElement.find_previous_sibling(tags)
FindPreviousSibling(d, p, tags) ==
    IF p = <<>> THEN None
    ELSE LET par  == SubSeq(p, 1, Len(p) - 1)
             last == p[Len(p)]
             hits == {i \in 1..(last - 1) : NodeAt(d, par).kids[i].tag \in tags}
         IN  IF hits = {} THEN None
             ELSE par \o << CHOOSE i \in hits : \A j \in hits : j <= i >>

\* find_all(tag) below the node at p
FindAllTag(d, p, tags) ==
    LET Hit(q) == NodeAt(d, q).tag \in tags IN SelectSeq(Descendants(d, p), Hit)

\* select('.c') below the node at p
SelectClass(d, p, c) ==
    LET Hit(q) == c \in NodeAt(d, q).cls IN SelectSeq(Descendants(d, p), Hit)

\* find_all(tag, {attr: value}) with an exact attribute value
FindAllAttr(d, tag, attr, value) ==
    LET Hit(q) == LET n == NodeAt(d, q)
                  IN  n.tag = tag /\ attr \in DOMAIN n.attrs /\ n.attrs[attr] = value
    IN  SelectSeq(Descendants(d, <<>>), Hit)

\* PageElement.find_next(tag, class_=c): the elements after p in document order
FindNext(d, p, tag, c) ==
    LET all == Descendants(d, <<>>)
        i   == CHOOSE i \in 1..Len(all) : all[i] = p
        Hit(q) == NodeAt(d, q).tag = tag /\ c \in NodeAt(d, q).cls
    IN  First(SelectSeq(SubSeq(all, i + 1, Len(all)), Hit))

(***************************************************************************)
(* The record under construction: a mapping from keys to values            *)
(***************************************************************************)
\* result = {}
EmptyRecord == [k \in {} |-> <<>>]

\* result[k] = v
Put(r, k, v) == (k :> v) @@ r

KeyTitle == <<"title">>
KeyDescription == <<"description">>
KeyToken == <<"authenticity_token">>
KeyJudgingId == <<"submission_judging_id">>
KeyGrades == <<"grade_fields">>

MetadataKeys == {KeyTitle, KeyDescription, KeyToken, KeyJudgingId, KeyGrades}

(***************************************************************************)
(* Metadata: authenticity token, grade fields, judging id                  *)
(***************************************************************************)
Digits == {"0", "1", "2", "3", "4", "5", "6", "7", "8", "9"}

\* the atoms that hold a '/' character
SlashAtoms == {"/", "/submissions/", "/submission_judgings/"}

\* length of the longest run of digits of s that starts at position i
RECURSIVE DigitRun(_, _)
DigitRun(s, i) ==
    IF i <= Len(s) /\ s[i] \in Digits THEN 1 + DigitRun(s, i + 1) ELSE 0

\* length of the longest run of atoms without '/' that starts at position i
RECURSIVE SlugRun(_, _)
SlugRun(s, i) ==
    IF i <= Len(s) /\ s[i] \notin SlashAtoms THEN 1 + SlugRun(s, i + 1) ELSE 0

\* re.search(r'grades\[(\d+)\]', name): group(1) of the leftmost match, or None
GradeIdAt(s, i) ==
    LET n == DigitRun(s, i + 1)
    IN  IF s[i] = "grades[" /\ n >= 1 /\ i + n + 1 <= Len(s) /\ s[i + n + 1] = "]"
        THEN SubSeq(s, i + 1, i + n) ELSE NoString

GradeId(s) ==
    LET hits == {i \in 1..Len(s) : GradeIdAt(s, i) # NoString}
    IN  IF hits = {} THEN NoString
        ELSE GradeIdAt(s, CHOOSE i \in hits : \A j \in hits : i <= j)

\* JudgingIdAt with the group around the first \d+ instead of the last
JudgingIdAtSubmission(s, i) ==
    LET n == DigitRun(s, i + 1)
        m == SlugRun(s, i + n + 2)
        j == i + n + 2 + m
        k == DigitRun(s, j + 1)
    IN  IF /\ s[i] = "/submissions/"
           /\ n >= 1
           /\ i + n + 1 <= Len(s) /\ s[i + n + 1] = "-"
           /\ m >= 1
           /\ j <= Len(s) /\ s[j] = "/submission_judgings/"
           /\ k >= 1
        THEN SubSeq(s, i + 1, i + n) ELSE NoString

\* re.search(r'/submissions/\d+-[^/]+/submission_judgings/(\d+)', action)
JudgingIdAt(s, i) ==
    LET n == DigitRun(s, i + 1)
        \* [^/]+ also takes digits and '-': it runs up to the next '/'
        m == SlugRun(s, i + n + 2)
        j == i + n + 2 + m
        k == DigitRun(s, j + 1)
    IN  IF /\ s[i] = "/submissions/"
           /\ n >= 1
           /\ i + n + 1 <= Len(s) /\ s[i + n + 1] = "-"
           /\ m >= 1
           /\ j <= Len(s) /\ s[j] = "/submission_judgings/"
           /\ k >= 1
        THEN SubSeq(s, j + 1, j + k) ELSE NoString

JudgingId(s) ==
    LET hits == {i \in 1..Len(s) : JudgingIdAt(s, i) # NoString}
    IN  IF hits = {} THEN NoString
        ELSE JudgingIdAt(s, CHOOSE i \in hits : \A j \in hits : i <= j)

\* find_all('input', {'name': re.compile(r'grades\[\d+\]')})
GradeInputs(d) ==
    LET Hit(q) == LET n == NodeAt(d, q)
                  IN  /\ n.tag = "input"
                      /\ "name" \in DOMAIN n.attrs
                      /\ GradeId(n.attrs["name"]) # NoString
    IN  SelectSeq(Descendants(d, <<>>), Hit)

\* the loop over grade_inputs: a later input overwrites an earlier one
Grades(d) ==
    LET ins == GradeInputs(d)
        F[i \in 0..Len(ins)] ==
            IF i = 0 THEN EmptyRecord
            ELSE LET n == NodeAt(d, ins[i])
                 IN  Put(F[i - 1], GradeId(n.attrs["name"]),
                         IF "value" \in DOMAIN n.attrs THEN n.attrs["value"] ELSE <<>>)
    IN  F[Len(ins)]

\* ExtractToken reading the value with .get('value', '')
ExtractTokenDefault(d, r) ==
    LET inp == First(FindAllAttr(d, "input", "name", <<"authenticity_token">>))
    IN  IF inp # None
        THEN Put(r, KeyToken, IF "value" \in DOMAIN NodeAt(d, inp).attrs
                              THEN NodeAt(d, inp).attrs["value"] ELSE <<>>)
        ELSE r

ExtractToken(d, r) ==
    LET inp == First(FindAllAttr(d, "input", "name", <<"authenticity_token">>))
    IN  IF inp # None /\ "value" \in DOMAIN NodeAt(d, inp).attrs
        THEN Put(r, KeyToken, NodeAt(d, inp).attrs["value"]) ELSE r

\* ExtractGrades without the test "if grade_inputs"
ExtractGradesAlways(d, r) == Put(r, KeyGrades, Grades(d))

ExtractGrades(d, r) ==
    IF GradeInputs(d) # <<>> THEN Put(r, KeyGrades, Grades(d)) ELSE r

ExtractJudgingId(d, r) ==
    LET Hit(q) == LET n == NodeAt(d, q)
                  IN  /\ n.tag = "form"
                      /\ "action" \in DOMAIN n.attrs
                      /\ JudgingId(n.attrs["action"]) # NoString
        form == First(SelectSeq(Descendants(d, <<>>), Hit))
    IN  IF form # None
        THEN Put(r, KeyJudgingId, JudgingId(NodeAt(d, form).attrs["action"])) ELSE r

(***************************************************************************)
(* Title and description                                                   *)
(***************************************************************************)
\* the first h1 whose text is not blank, or None
TitleH1(d) ==
    LET Hit(q) == Strip(TextAt(d, q)) # <<>>
    IN  First(SelectSeq(FindAllTag(d, <<>>, {"h1"}), Hit))

\* a or b, for two lookups that give a node or None
OrElse(a, b) == IF a # None THEN a ELSE b

MetaProperty(d, v) == First(FindAllAttr(d, "meta", "property", <<v>>))
MetaName(d, v) == First(FindAllAttr(d, "meta", "name", <<v>>))

\* the fallback to a meta element's content attribute
PutMetaContent(d, r, key, meta) ==
    IF meta # None /\ "content" \in DOMAIN NodeAt(d, meta).attrs
    THEN Put(r, key, clean_text(NodeAt(d, meta).attrs["content"])) ELSE r

ResolveTitle(d, r) ==
    IF TitleH1(d) # None
    THEN Put(r, KeyTitle, clean_text(TextAt(d, TitleH1(d))))
    ELSE PutMetaContent(d, r, KeyTitle,
             OrElse(MetaProperty(d, "og:title"), MetaName(d, "twitter:title")))

\* the <i> inside the h3.subheader that follows the title h1, or None
DescriptionElement(d) ==
    IF TitleH1(d) = None THEN None
    ELSE LET subheader == FindNext(d, TitleH1(d), "h3", "subheader")
         IN  IF subheader = None THEN None
             ELSE First(FindAllTag(d, subheader, {"i"}))

ResolveDescription(d, r) ==
    IF DescriptionElement(d) # None
    THEN Put(r, KeyDescription, clean_text(TextAt(d, DescriptionElement(d))))
    ELSE PutMetaContent(d, r, KeyDescription,
             OrElse(MetaProperty(d, "og:description"),
                    OrElse(MetaName(d, "description"),
                           MetaName(d, "twitter:description"))))

(***************************************************************************)
(* Sections                                                                *)
(***************************************************************************)
NextPrefix == <<"What's next for">>

sections ==
    << <<"Inspiration">>,
       <<"What it does">>,
       <<"How we built it">>,
       <<"Challenges we ran into">>,
       <<"Accomplishments that we're proud of">>,
       <<"What we learned">>,
       NextPrefix >>

SectionSet == {sections[i] : i \in 1..Len(sections)}

\* HeaderTags with paragraphs taken for headers
HeaderTagsAndP == {"h2", "h3", "h4", "p"}

HeaderTags == {"h2", "h3", "h4"}

\* Step A: the text nodes that hold "Date entered:", in document order
DateElems(d) ==
    LET Hit(q) == /\ NodeAt(d, q).tag = "#text"
                  /\ Contains(NodeAt(d, q).str, <<"Date entered:">>)
    IN  SelectSeq(Descendants(d, <<>>), Hit)

\* Step A: the previous sibling header of the nearest parent that has one
ClosestHeader(d, p) ==
    LET ps   == Parents(p)
        hits == {i \in 1..Len(ps) : FindPreviousSibling(d, ps[i], HeaderTags) # None}
    IN  IF hits = {} THEN None
        ELSE FindPreviousSibling(d, ps[CHOOSE i \in hits : \A j \in hits : i <= j],
                                 HeaderTags)

\* Step A: the entries one marker adds to the placeholder table
PlaceholdersOf(d, ph, p) ==
    LET header == ClosestHeader(d, p)
        header_text == clean_text(TextAt(d, header))
        F[i \in 0..Len(sections)] ==
            IF i = 0 THEN ph
            ELSE IF Contains(header_text, sections[i])
                 THEN Put(F[i - 1],
                          IF sections[i] # NextPrefix THEN sections[i] ELSE header_text,
                          clean_text(NodeAt(d, p).str))
                 ELSE F[i - 1]
    IN  IF header = None THEN ph ELSE F[Len(sections)]

HarvestPlaceholders(d) ==
    LET es == DateElems(d)
        F[i \in 0..Len(es)] ==
            IF i = 0 THEN EmptyRecord ELSE PlaceholdersOf(d, F[i - 1], es[i])
    IN  F[Len(es)]

\* Step B: the structured container
AppDetails(d) ==
    OrElse(First(SelectClass(d, <<>>, "app-details")),
           First(SelectClass(d, <<>>, "content-blocks")))

\* Step B: does a header of the container match the section
HeaderMatchesB(section, header_text) ==
    IF section = NextPrefix THEN StartsWith(header_text, section)
    ELSE header_text = section

\* Step B: the first matching header of the container, or None
SectionHeaderB(d, app, section) ==
    LET Hit(q) == HeaderMatchesB(section, clean_text(TextAt(d, q)))
    IN  First(SelectSeq(FindAllTag(d, app, HeaderTags), Hit))

SectionNameB(d, header, section) ==
    IF section = NextPrefix THEN clean_text(TextAt(d, header)) ELSE section

\* Step B: the nearest div.block above the header, or None
SectionDiv(d, header) ==
    LET ps == Parents(header)
        Hit(q) == NodeAt(d, q).tag = "div" /\ "block" \in NodeAt(d, q).cls
    IN  First(SelectSeq(ps, Hit))

\* " ".join(...)
RECURSIVE Join(_)
Join(ts) ==
    IF ts = <<>> THEN <<>>
    ELSE IF Len(ts) = 1 THEN ts[1]
    ELSE ts[1] \o <<" ">> \o Join(Tail(ts))

\* Step B (1): the text of the block's p, .large and .details elements
BlockContent(d, div, header, section) ==
    LET Sel(q) == LET n == NodeAt(d, q)
                  IN  n.tag = "p" \/ "large" \in n.cls \/ "details" \in n.cls
        Keep(q) == /\ NodeAt(d, q) # NodeAt(d, header)
                   /\ ~Contains(TextAt(d, q), section)
                   /\ Strip(TextAt(d, q)) # <<>>
        elems == SelectSeq(SelectSeq(Descendants(d, div), Sel), Keep)
    IN  Join([i \in 1..Len(elems) |-> Strip(TextAt(d, elems[i]))])

\* WalkStopTags without h1
WalkStopTagsNoH1 == {"h2", "h3", "h4"}

\* Step B (2): the tags that end the walk over the siblings
WalkStopTags == {"h1", "h2", "h3", "h4"}

\* Step B (2): the siblings after the header, up to the next h1-h4
RECURSIVE SiblingWalk(_, _, _)
SiblingWalk(d, current, content) ==
    IF current = None THEN content
    ELSE LET n == NodeAt(d, current)
         IN  IF n.tag \in WalkStopTags THEN content
             ELSE SiblingWalk(d, NextSibling(d, current),
                      IF n.tag = "p" \/ (n.tag = "div" /\ "details" \in n.cls)
                      THEN content \o <<" ">> \o Strip(GetText(n))
                      ELSE content)

\* Step B: the content found for a header, before it is cleaned
ContentB(d, header, section, section_name, ph) ==
    LET div == SectionDiv(d, header)
        c1  == IF div # None THEN BlockContent(d, div, header, section) ELSE <<>>
        c2  == IF c1 = <<>> THEN SiblingWalk(d, NextSibling(d, header), <<>>) ELSE c1
    IN  IF c2 = <<>> /\ section_name \in DOMAIN ph THEN ph[section_name] ELSE c2

\* "Only add non-empty sections"
Emit(r, section_name, content, ph) ==
    IF content # <<>> THEN Put(r, section_name, clean_text(content))
    ELSE IF section_name \in DOMAIN ph THEN Put(r, section_name, ph[section_name])
    ELSE r

StepBSection(d, r, ph, app, section) ==
    LET header == SectionHeaderB(d, app, section)
        name   == SectionNameB(d, header, section)
    IN  IF header = None THEN r
        ELSE Emit(r, name, ContentB(d, header, section, name, ph), ph)

StructuredSections(d, r, ph) ==
    LET app == AppDetails(d)
        F[i \in 0..Len(sections)] ==
            IF i = 0 THEN r ELSE StepBSection(d, F[i - 1], ph, app, sections[i])
    IN  IF app = None THEN r ELSE F[Len(sections)]

\* NoStructuredSections with all() in place of any()
NotAllStructuredSections(r) == ~\A k \in SectionSet : k \in DOMAIN r

\* Step C runs unless the record has one of the seven names as a key
NoStructuredSections(r) == ~\E k \in SectionSet : k \in DOMAIN r

\* Step C: the root of the search
MainContent(d) ==
    OrElse(First(SelectClass(d, <<>>, "app-details")),
           OrElse(First(FindAllTag(d, <<>>, {"main"})),
                  First(FindAllTag(d, <<>>, {"body"}))))

\* Step C: the predicate given to find_all(..., string=...)
HeaderMatchesC(section, s) ==
    /\ s # NoString
    /\ s # <<>>
    /\ IF section = NextPrefix THEN StartsWith(Strip(s), section)
       ELSE Strip(s) = section

HeadersC(d, root, section) ==
    LET Hit(q) == HeaderMatchesC(section, StringOf(NodeAt(d, q)))
    IN  SelectSeq(FindAllTag(d, root, HeaderTags), Hit)

\* SectionNameC without clean_text
SectionNameCRaw(d, header) == TextAt(d, header)

SectionNameC(d, header) == clean_text(TextAt(d, header))

\* hasattr(current, 'text'): a Tag always, a NavigableString as bs4 provides
HasText(n, st) == IsTag(n) \/ st

\* Step C: at most `left` siblings after the header, up to the next h2-h4
RECURSIVE SiblingScan(_, _, _, _, _)
SiblingScan(d, current, left, content, st) ==
    IF left = 0 \/ current = None THEN content
    ELSE LET n == NodeAt(d, current)
         IN  IF n.tag \in HeaderTags THEN content
             ELSE SiblingScan(d, NextSibling(d, current), left - 1,
                      IF n.tag = "p" \/ (HasText(n, st) /\ Strip(GetText(n)) # <<>>)
                      THEN content \o <<" ">> \o Strip(GetText(n))
                      ELSE content,
                      st)

ScanLimit == 5

StepCHeader(d, r, ph, header, st) ==
    Emit(r, SectionNameC(d, header),
         SiblingScan(d, NextSibling(d, header), ScanLimit, <<>>, st), ph)

StepCSection(d, r, ph, root, section, st) ==
    LET hs == HeadersC(d, root, section)
        F[i \in 0..Len(hs)] ==
            IF i = 0 THEN r ELSE StepCHeader(d, F[i - 1], ph, hs[i], st)
    IN  F[Len(hs)]

FallbackSections(d, r, ph, st) ==
    LET root == MainContent(d)
        F[i \in 0..Len(sections)] ==
            IF i = 0 THEN r ELSE StepCSection(d, F[i - 1], ph, root, sections[i], st)
    IN  IF root = None THEN r ELSE F[Len(sections)]

\* Assemble without the default of the description
AssembleTitleOnly(r) ==
    IF KeyTitle \notin DOMAIN r THEN Put(r, KeyTitle, <<>>) ELSE r

\* "ensure all required fields are present even if empty"
Assemble(r) ==
    LET r1 == IF KeyTitle \notin DOMAIN r THEN Put(r, KeyTitle, <<>>) ELSE r
    IN  IF KeyDescription \notin DOMAIN r1 THEN Put(r1, KeyDescription, <<>>) ELSE r1

\* the record parse_project_page returns for a document
parse_project_page(d, st) ==
    LET r1 == ExtractJudgingId(d, ExtractGrades(d, ExtractToken(d, EmptyRecord)))
        r2 == ResolveDescription(d, ResolveTitle(d, r1))
        ph == HarvestPlaceholders(d)
        r3 == StructuredSections(d, r2, ph)
        r4 == IF NoStructuredSections(r3) THEN FallbackSections(d, r3, ph, st) ELSE r3
    IN  Assemble(r4)

(***************************************************************************)
(* The documents given to parse_project_page                               *)
(***************************************************************************)
MaxUnits == 2
MaxMeta == 2

Threads == {1, 2}

H(tag, s) == El(tag, {}, NoAttrs, <<Txt(s)>>)
P(s) == El("p", {}, NoAttrs, IF s = <<>> THEN <<>> ELSE <<Txt(s)>>)

Marker == <<"Date entered:", " ", "2024-01-01">>
NextA == <<"What's next for", " ", "A">>
NextB == <<"What's next for", " ", "B">>

\* the pieces of content a page is made of: a header with what follows it
Units ==
    << << H("h2", <<"Inspiration">>), P(<<"x">>) >>,
       << H("h2", <<"Inspiration">>), P(<<"y">>) >>,
       << H("h2", NextA), P(<<"x">>) >>,
       << H("h3", <<"\n", "What's next for", " ", " ", "B", " ">>),
          P(<<"y", "\n", " ", "z">>) >>,
       << H("h2", <<"Inspiration">>), P(<<>>) >>,
       << H("h2", <<"Inspiration">>), P(Marker) >>,
       << H("h2", <<"Inspiration">>), Txt(Marker) >>,
       << El("div", {"block"}, NoAttrs,
             << H("h2", <<"Inspiration">>), P(<<"z">>) >>) >>,
       << H("h1", <<"T">>) >>,
       << H("h4", <<"\n", "What it does", " ">>), P(<<"y">>) >>,
       << P(<<"Inspiration">>), P(<<"x">>) >> >>

RECURSIVE Flatten(_)
Flatten(ss) == IF ss = <<>> THEN <<>> ELSE Head(ss) \o Flatten(Tail(ss))

Contents ==
    { Flatten([i \in DOMAIN f |-> Units[f[i]]]) :
        f \in UNION { [1..n -> 1..Len(Units)] : n \in 0..MaxUnits } }

\* where the content sits in the page
Body(kids) == El("body", {}, NoAttrs, kids)

Wrappers == {"fragment", "body", "main", "app-details", "content-blocks", "block"}

Page(w, head, content) ==
    CASE w = "fragment" -> Soup(head \o content)
      [] w = "body" -> Soup(head \o <<Body(content)>>)
      [] w = "main" -> Soup(head \o <<Body(<<El("main", {}, NoAttrs, content)>>)>>)
      [] w = "app-details" ->
            Soup(head \o <<Body(<<El("div", {"app-details"}, NoAttrs, content)>>)>>)
      [] w = "content-blocks" ->
            Soup(head \o <<Body(<<El("div", {"content-blocks"}, NoAttrs, content)>>)>>)
      [] w = "block" ->
            Soup(head \o <<Body(<<El("div", {"app-details"}, NoAttrs,
                    <<El("div", {"block"}, NoAttrs, content)>>)>>)>>)

ContentDocs == { Page(w, <<>>, c) : w \in Wrappers, c \in Contents }

\* a page with all seven sections, the k-th one dropped or left empty
SectionHeading(i) == IF sections[i] = NextPrefix THEN NextA ELSE sections[i]

FullContent(k, how) ==
    Flatten([i \in 1..Len(sections) |->
        IF i = k /\ how = "drop" THEN <<>>
        ELSE IF i = k /\ how = "empty" THEN << H("h2", SectionHeading(i)), P(<<>>) >>
        ELSE IF i = k /\ how = "bare" THEN << H("h2", SectionHeading(i)) >>
        ELSE IF i = k /\ how = "blank" THEN << H("h2", SectionHeading(i)), P(<<" ">>) >>
        ELSE << H("h2", SectionHeading(i)), Txt(<<"\n">>),
                P(<<"about", " ", sections[i][1]>>) >>])

FullDocs ==
    { Page(w, <<>>, FullContent(k, how)) :
        w \in Wrappers, k \in 0..Len(sections), how \in {"drop", "empty", "bare", "blank"} }

\* the elements that carry the metadata, the title and the description
Input(attrs) == El("input", {}, attrs, <<>>)
Meta(attrs) == El("meta", {}, attrs, <<>>)

MetaNodes ==
    << Input([name |-> <<"authenticity_token">>, value |-> <<"tok">>]),
       Input([name |-> <<"authenticity_token">>]),
       Input([name |-> <<"grades[", "1", "2", "]">>, value |-> <<"3">>]),
       Input([name |-> <<"grades[", "1", "2", "]">>]),
       Input([name |-> <<"x", "grades[", "7", "]">>, value |-> <<>>]),
       Input([name |-> <<"grades[", "]">>, value |-> <<"5">>]),
       El("form", {}, [action |-> <<"/submissions/", "1", "-", "slug",
                                    "/submission_judgings/", "4", "5">>], <<>>),
       El("form", {}, [action |-> <<"/submissions/", "slug",
                                    "/submission_judgings/", "4">>], <<>>),
       Meta([property |-> <<"og:title">>, content |-> <<" ", "OgT", "\n">>]),
       Meta([property |-> <<"og:title">>]),
       Meta([name |-> <<"twitter:title">>, content |-> <<"TwT">>]),
       Meta([property |-> <<"og:description">>, content |-> <<"OgD">>]),
       Meta([name |-> <<"description">>, content |-> <<"D">>]),
       Meta([name |-> <<"twitter:description">>, content |-> <<"TwD">>]),
       H("h1", <<"\n", "T", " ", " ", "U">>),
       H("h1", <<" ">>),
       El("h3", {"subheader"}, NoAttrs, <<El("i", {}, NoAttrs, <<Txt(<<"I">>)>>)>>),
       El("h3", {"subheader"}, NoAttrs, <<Txt(<<"S">>)>>),
       Meta([property |-> <<"og:description">>]),
       El("form", {}, [action |-> <<"host", "/submissions/", "2", "-", "a", "-", "b",
                                    "/submission_judgings/", "7", "?x">>], <<>>) >>

Heads ==
    { [i \in DOMAIN f |-> MetaNodes[f[i]]] :
        f \in UNION { [1..n -> 1..Len(MetaNodes)] : n \in 0..MaxMeta } }

MetaDocs == { Page("body", h, <<>>) : h \in Heads }

\* pages with content outside the container, with headings that hold a
\* canonical name inside longer text, and with more siblings after a heading
\* than one content unit has
ExtraDocs ==
    { Soup(<<Body(Units[1] \o <<El("div", {"content-blocks"}, NoAttrs, <<P(<<"z">>)>>)>>)>>),
      Soup(<<Body(Units[1] \o <<El("div", {"app-details"}, NoAttrs, <<P(<<"z">>)>>)>>)>>),
      Soup(<<Body(Units[1] \o <<El("main", {}, NoAttrs, Units[10])>>)>>),
      Page("body", <<>>, << H("h2", <<"Inspiration">>), P(<<"a">>), P(<<"b">>),
                            Txt(<<"\n">>), P(<<"c">>), P(<<"d">>), P(<<"e">>) >>),
      Page("body", <<>>, << H("h2", <<"Inspiration">>), P(<<"x">>),
                            H("h1", <<"T">>), P(<<"y">>) >>),
      Page("app-details", <<>>, << H("h2", <<"My", " ", "Inspiration">>), P(Marker) >>),
      Page("app-details", <<>>, << H("h2", <<"Inspiration">>),
                                   H("h2", <<"My", " ", "Inspiration">>), P(Marker) >>),
      Page("app-details", <<>>, << H("h3", <<"On", " ", "What's next for", " ", "A">>),
                                   P(Marker) >>),
      Page("app-details", <<>>, << H("h2", <<"Inspiration">>), P(<<"x">>),
                                   El("div", {"details"}, NoAttrs, <<Txt(<<"y">>)>>),
                                   El("span", {}, NoAttrs, <<Txt(<<"z">>)>>),
                                   Txt(<<"w">>),
                                   H("h1", <<"T">>), P(<<"after">>) >>) }

Docs == ContentDocs \cup FullDocs \cup MetaDocs \cup ExtraDocs

\* the documents of the runs with several calls
ConcDocs ==
    { Page("app-details", <<>>, Units[1]),
      Page("body", <<>>, Units[3] \o Units[4]),
      Page("content-blocks", <<MetaNodes[1], MetaNodes[3], MetaNodes[9]>>, Units[6]),
      Page("body", <<MetaNodes[15]>>, <<>>) }

(***************************************************************************)
(* The calls of parse_project_page                                         *)
(***************************************************************************)
\* FreshRecord with the record kept from one call to the next
KeptRecord(prev) == prev

\* result = {} at the start of a call; prev is what the name held before
FreshRecord(prev) == EmptyRecord

TypeOK ==
    /\ pc \in [Threads -> {"idle", "metadata", "title", "stepA", "stepB",
                           "fallback", "assemble", "done"}]
    /\ ranStepC \in [Threads -> BOOLEAN]
    /\ stringHasText \in BOOLEAN
    /\ DOMAIN doc = Threads
    /\ DOMAIN result = Threads
    /\ DOMAIN date_placeholders = Threads

Idle ==
    /\ pc = [t \in Threads |-> "idle"]
    /\ doc = [t \in Threads |-> Soup(<<>>)]
    /\ result = [t \in Threads |-> EmptyRecord]
    /\ date_placeholders = [t \in Threads |-> EmptyRecord]
    /\ ranStepC = [t \in Threads |-> FALSE]

(***************************************************************************)
(* submit_form, src/src/judge.py, with generate_ai_ratings and             *)
(* generate_random_ratings, src/src/ai_judge.py                            *)
(***************************************************************************)
\* None as the value of fetch_and_parse_project
NoData == (NoString :> <<>>)

\* str(n) of an integer n >= 0
DigitOf == <<"0", "1", "2", "3", "4", "5", "6", "7", "8", "9">>

RECURSIVE Str(_)
Str(n) == IF n < 10 THEN <<DigitOf[n + 1]>>
          ELSE Str(n \div 10) \o <<DigitOf[(n % 10) + 1]>>

\* f'grades[{grade_id}]'
FormKey(grade_id) == <<"grades[">> \o grade_id \o <<"]">>

\* uri.split('/')
RECURSIVE Split(_)
Split(s) ==
    IF \A i \in 1..Len(s) : s[i] # "/" THEN <<s>>
    ELSE LET i == CHOOSE i \in 1..Len(s) : s[i] = "/" /\ \A j \in 1..(i - 1) : s[j] # "/"
         IN  <<SubSeq(s, 1, i - 1)>> \o Split(SubSeq(s, i + 1, Len(s)))

\* list(project_data['grade_fields'].keys()): the ids in the order in which
\* the loop over the page's inputs first stored them
grade_ids(d) ==
    LET ins == GradeInputs(d)
        F[i \in 0..Len(ins)] ==
            IF i = 0 THEN <<>>
            ELSE LET id == GradeId(NodeAt(d, ins[i]).attrs["name"])
                 IN  IF \E j \in 1..Len(F[i - 1]) : F[i - 1][j] = id THEN F[i - 1]
                     ELSE Append(F[i - 1], id)
    IN  F[Len(ins)]

\* the checks of submit_form with the grade fields looked at before the token
MissingErrorGradesFirst(pd) ==
    IF pd = NoData \/ DOMAIN pd = {} THEN <<"Failed to fetch project data">>
    ELSE IF KeyGrades \notin DOMAIN pd THEN <<"Grade fields not found">>
    ELSE IF KeyToken \notin DOMAIN pd THEN <<"Authenticity token not found">>
    ELSE IF KeyJudgingId \notin DOMAIN pd THEN <<"Submission judging ID not found">>
    ELSE NoString

\* the checks at the start of submit_form: the error to return, or None
MissingError(pd) ==
    IF pd = NoData \/ DOMAIN pd = {} THEN <<"Failed to fetch project data">>
    ELSE IF KeyToken \notin DOMAIN pd THEN <<"Authenticity token not found">>
    ELSE IF KeyGrades \notin DOMAIN pd THEN <<"Grade fields not found">>
    ELSE IF KeyJudgingId \notin DOMAIN pd THEN <<"Submission judging ID not found">>
    ELSE NoString

\* random.randint(1, 5)
RandomRangeWide == 1..5

\* random.randint(2, 4)
RandomRange == 2..4

\* the ratings the loops over the grade fields in submit_form can draw
RandomRatings(pd) == [DOMAIN pd[KeyGrades] -> RandomRange]

\* generate_random_ratings giving up with an empty mapping
generate_random_ratings_empty(pd) == {EmptyRecord}

\* the mappings generate_random_ratings can return
generate_random_ratings(pd) == [DOMAIN pd[KeyGrades] -> RandomRange]

\* the criteria the prompt asks the model to rate
Criteria == <<"idea_quality", "code_quality", "project_quality", "impact">>

\* ratings_data.get(name, 3)
GetOr3(ratings_data, name) ==
    IF name \in DOMAIN ratings_data THEN ratings_data[name] ELSE 3

\* the mapping built from a JSON object answer: the first four grade ids get
\* the four criteria, in the order of the grade fields
MappedRatings(ids, ratings_data) ==
    [id \in {ids[i] : i \in 1..4} |->
        GetOr3(ratings_data, Criteria[CHOOSE i \in 1..4 : ids[i] = id])]

\* what the environment of generate_ai_ratings decides: whether the openai
\* module was imported, whether an API key is configured, and the answer of
\* the API call: an exception, text that is not JSON, JSON that is not an
\* object, or a JSON object
AIValues == {0, 5, 9}

AIObjects ==
    UNION { [S -> AIValues] :
              S \in { {Criteria[i] : i \in 1..4}, {"idea_quality"}, {} } }

Answers ==
    { [kind |-> k, data |-> EmptyRecord] : k \in {"raise", "text", "array"} }
        \cup { [kind |-> "object", data |-> m] : m \in AIObjects }

\* no key is read without the module, no API call is made without a key
AIEnvs ==
    { env \in [available : BOOLEAN, key : BOOLEAN, answer : Answers] :
        /\ ~env.available => ~env.key
        /\ ~env.key => env.answer.kind = "raise" }

\* the environment before any call
NoEnv == [available |-> FALSE, key |-> FALSE,
          answer |-> [kind |-> "raise", data |-> EmptyRecord]]

\* the mappings generate_ai_ratings(project_data) can return in environment
\* env; ids is list(project_data['grade_fields'].keys())
generate_ai_ratings(pd, ids, env) ==
    IF ~env.available THEN generate_random_ratings(pd)
    ELSE IF ~env.key THEN generate_random_ratings(pd)
    ELSE IF env.answer.kind \in {"raise", "text"} THEN generate_random_ratings(pd)
    ELSE IF Len(ids) >= 4
    THEN \* .get on a JSON value that is not an object raises: outer except
         IF env.answer.kind = "array" THEN generate_random_ratings(pd)
         ELSE {MappedRatings(ids, env.answer.data)}
    ELSE generate_random_ratings(pd)

\* the grade data of a mapping id -> rating: grades[id] -> str(rating)
GradeData(rs) ==
    [k \in {FormKey(id) : id \in DOMAIN rs} |->
        Str(rs[CHOOSE id \in DOMAIN rs : FormKey(id) = k])]

\* form_data of the POST
FormData(pd, gd) ==
    gd @@ (<<"utf8">> :> <<"check">>) @@ (<<"_method">> :> <<"patch">>)
       @@ (KeyToken :> pd[KeyToken])
       @@ (<<"submission_judging[recused]">> :> <<"0">>)
       @@ (<<"commit">> :> <<"Save and continue">>)

\* submission_url, without the base url
SubmissionUrl(u, pd) ==
    <<"/submissions/">> \o Split(u)[3] \o <<"/submission_judgings/">> \o pd[KeyJudgingId]

\* the value submit_form returns, or the exception it lets through
Outcome(success, error, status_code, raised) ==
    [success |-> success, error |-> error, status_code |-> status_code,
     raised |-> raised]

NoOutcome == Outcome(FALSE, NoString, 0, FALSE)

\* the argument ratings: None, an int, a dict or a value of another type
NoRatings == [kind |-> "None", int |-> 0, dict |-> EmptyRecord]
IntRatings(n) == [kind |-> "int", int |-> n, dict |-> EmptyRecord]
DictRatings(m) == [kind |-> "dict", int |-> 0, dict |-> m]
OtherRatings == [kind |-> "str", int |-> 0, dict |-> EmptyRecord]

\* submit_form is not called
SubmitIdle ==
    /\ sf = "idle"
    /\ uri = <<>>
    /\ ratings = NoRatings
    /\ use_ai = FALSE
    /\ page = Soup(<<>>)
    /\ project_data = NoData
    /\ ai_ratings = EmptyRecord
    /\ ai_env = NoEnv
    /\ grade_data = EmptyRecord
    /\ posted = <<>>
    /\ outcome = NoOutcome

MaxGrades == 5

\* the ids of the grade inputs of the pages, in the order of the inputs
GradeIdPool == <<"7", "4", "1", "8", "5", "2", "9", "6">>

GradeInput(i) == Input([name |-> FormKey(<<GradeIdPool[i]>>), value |-> <<>>])

\* the pages the site serves: with or without a token input (with or without
\* a value), with up to MaxGrades grade inputs, with or without the form
SubmitPages ==
    { Page("body", t \o [i \in 1..k |-> GradeInput(i)] \o f, <<>>) :
        t \in {<<>>, <<MetaNodes[1]>>, <<MetaNodes[2]>>},
        k \in 0..MaxGrades,
        f \in {<<>>, <<MetaNodes[7]>>} }

URIs == { <<"/", "software", "/", "slug">>, <<"software">> }

RatingArgs ==
    {NoRatings, OtherRatings, IntRatings(0), IntRatings(3), IntRatings(12)}
        \cup { DictRatings(m) :
                 m \in { EmptyRecord, (<<"7">> :> 5),
                         (<<"7">> :> 1) @@ (<<"9", "9">> :> 4) } }

\* submit_form(uri, ratings, use_ai)
CallSubmit(u, r, ai) ==
    /\ sf = "idle"
    /\ uri' = u
    /\ ratings' = r
    /\ use_ai' = ai
    /\ sf' = "fetch"
    /\ UNCHANGED <<page, project_data, ai_ratings, ai_env, grade_data, posted, outcome>>
    /\ UNCHANGED notSubmit

\* fetch_and_parse_project: the parsed page, or None if the request failed
Fetch ==
    /\ sf = "fetch"
    /\ \/ /\ project_data' = NoData
          /\ UNCHANGED page
       \/ \E pg \in SubmitPages :
              /\ page' = pg
              /\ project_data' = parse_project_page(pg, stringHasText)
    /\ sf' = "check"
    /\ UNCHANGED <<uri, ratings, use_ai, ai_ratings, ai_env, grade_data, posted, outcome>>
    /\ UNCHANGED notSubmit

\* one of the four early returns
Reject ==
    /\ sf = "check"
    /\ MissingError(project_data) # NoString
    /\ outcome' = Outcome(FALSE, MissingError(project_data), 0, FALSE)
    /\ sf' = "returned"
    /\ UNCHANGED <<uri, ratings, use_ai, page, project_data, ai_ratings, ai_env, grade_data,
                   posted>>
    /\ UNCHANGED notSubmit

\* if use_ai: the ratings of generate_ai_ratings, or random ones if it
\* returned an empty mapping
RateAI ==
    /\ sf = "check"
    /\ MissingError(project_data) = NoString
    /\ use_ai
    /\ \E env \in AIEnvs :
           /\ ai_env' = env
           /\ ai_ratings' \in generate_ai_ratings(project_data, grade_ids(page), env)
    /\ IF DOMAIN ai_ratings' # {} THEN grade_data' = GradeData(ai_ratings')
       ELSE \E rr \in RandomRatings(project_data) : grade_data' = GradeData(rr)
    /\ sf' = "post"
    /\ UNCHANGED <<uri, ratings, use_ai, page, project_data, posted, outcome>>
    /\ UNCHANGED notSubmit

\* elif isinstance(ratings, int)
RateInt ==
    /\ sf = "check"
    /\ MissingError(project_data) = NoString
    /\ ~use_ai /\ ratings.kind = "int"
    /\ grade_data' = GradeData([id \in DOMAIN project_data[KeyGrades] |-> ratings.int])
    /\ sf' = "post"
    /\ UNCHANGED <<uri, ratings, use_ai, page, project_data, ai_ratings, ai_env, posted, outcome>>
    /\ UNCHANGED notSubmit

\* elif isinstance(ratings, dict)
RateDict ==
    /\ sf = "check"
    /\ MissingError(project_data) = NoString
    /\ ~use_ai /\ ratings.kind = "dict"
    /\ grade_data' = GradeData(ratings.dict)
    /\ sf' = "post"
    /\ UNCHANGED <<uri, ratings, use_ai, page, project_data, ai_ratings, ai_env, posted, outcome>>
    /\ UNCHANGED notSubmit

\* else: random ratings
RateRandom ==
    /\ sf = "check"
    /\ MissingError(project_data) = NoString
    /\ ~use_ai /\ ratings.kind \notin {"int", "dict"}
    /\ \E rr \in RandomRatings(project_data) : grade_data' = GradeData(rr)
    /\ sf' = "post"
    /\ UNCHANGED <<uri, ratings, use_ai, page, project_data, ai_ratings, ai_env, posted, outcome>>
    /\ UNCHANGED notSubmit

\* the status codes of the answer to the POST; 0 stands for requests.post
\* raising an exception
PostResults == {0, 200, 302, 500}

\* form_data, submission_url and the POST; uri.split('/')[2] raises
\* IndexError, outside the try, for a uri with fewer than two slashes
Post ==
    /\ sf = "post"
    /\ IF Len(Split(uri)) < 3
       THEN /\ outcome' = Outcome(FALSE, <<"IndexError">>, 0, TRUE)
            /\ UNCHANGED posted
       ELSE \E status \in PostResults :
              /\ posted' = Append(posted,
                                  [url |-> SubmissionUrl(uri, project_data),
                                   data |-> FormData(project_data, grade_data)])
              /\ outcome' = IF status = 0
                            THEN Outcome(FALSE, <<"exception">>, 0, FALSE)
                            ELSE Outcome(status \in {200, 302}, NoString, status, FALSE)
    /\ sf' = "returned"
    /\ UNCHANGED <<uri, ratings, use_ai, page, project_data, ai_ratings, ai_env, grade_data>>
    /\ UNCHANGED notSubmit

(***************************************************************************)
(* batch_submit_forms, src/batch_submit.py, with process_uri,              *)
(* src/src/main.py, and generate_ratings, src/src/ai_judge.py              *)
(***************************************************************************)
\* what fetch_and_parse_project can return when the site serves one of pages
FetchResults(pages, hasText) ==
    {[page |-> Soup(<<>>), data |-> NoData]}
        \cup {[page |-> pg, data |-> parse_project_page(pg, hasText)] : pg \in pages}

\* the grade data submit_form can prepare from the fetched page f
grade_datas(f, r, ai) ==
    IF ai
    THEN UNION { IF DOMAIN m # {} THEN {GradeData(m)}
                 ELSE {GradeData(rr) : rr \in RandomRatings(f.data)} :
                 m \in UNION { generate_ai_ratings(f.data, grade_ids(f.page), env) :
                                 env \in AIEnvs } }
    ELSE IF r.kind = "int"
    THEN {GradeData([id \in DOMAIN f.data[KeyGrades] |-> r.int])}
    ELSE IF r.kind = "dict" THEN {GradeData(r.dict)}
    ELSE {GradeData(rr) : rr \in RandomRatings(f.data)}

\* submit_form(uri, ratings, use_ai) run to its end on the fetched page f:
\* what it can return or raise, with the POST requests it sends
submit_form(u, r, ai, f) ==
    IF MissingError(f.data) # NoString
    THEN {[outcome |-> Outcome(FALSE, MissingError(f.data), 0, FALSE), posts |-> <<>>]}
    ELSE IF Len(Split(u)) < 3
    THEN {[outcome |-> Outcome(FALSE, <<"IndexError">>, 0, TRUE), posts |-> <<>>]}
    ELSE { [outcome |-> IF status = 0
                        THEN Outcome(FALSE, <<"exception">>, 0, FALSE)
                        ELSE Outcome(status \in {200, 302}, NoString, status, FALSE),
            posts |-> <<[url |-> SubmissionUrl(u, f.data),
                         data |-> FormData(f.data, gd)]>>] :
             gd \in grade_datas(f, r, ai), status \in PostResults }

\* process_uri(uri, rating, use_ai) with fetch_only False
process_uri(u, r, ai, f) == submit_form(u, r, ai, f)

\* the arguments process_uri gets from batch_submit_forms in mode m
BatchRatings(m) ==
    IF m.ai_mode \/ m.auto_mode THEN NoRatings ELSE IntRatings(m.rating)

\* results[uri] = result keeping the first value of a key
SetItemKeepFirst(d, k, v) ==
    IF \E i \in 1..Len(d) : d[i].key = k THEN d
    ELSE Append(d, [key |-> k, value |-> v])

\* results[uri] = result, the dict being the sequence of its items in
\* insertion order: a key that is present keeps its place
SetItem(d, k, v) ==
    IF \E i \in 1..Len(d) : d[i].key = k
    THEN [i \in 1..Len(d) |-> IF d[i].key = k THEN [key |-> k, value |-> v] ELSE d[i]]
    ELSE Append(d, [key |-> k, value |-> v])

\* the JSON object written for one result of submit_form
JsonOf(o) == [success |-> o.success, error |-> o.error, status_code |-> o.status_code]

\* open('submission_results.json', 'w') and json.dump(results, outfile): the
\* file is replaced by the items of results, in order
Dump(d) ==
    [exists |-> TRUE,
     content |-> [i \in 1..Len(d) |-> [key |-> d[i].key, value |-> JsonOf(d[i].value)]]]

\* there is no file
NoFile == [exists |-> FALSE, content |-> <<>>]

\* the defaults rating=3, auto_mode=False, ai_mode=False
DefaultMode == [rating |-> 3, auto_mode |-> FALSE, ai_mode |-> FALSE]

\* batch_submit_forms is not called
BatchIdle ==
    /\ uris = <<>>
    /\ mode = DefaultMode
    /\ bpc = "idle"
    /\ bi = 0
    /\ batch_result = NoOutcome
    /\ results = <<>>
    /\ saved = NoFile
    /\ calls = <<>>

MaxBatch == 2

\* the lists of URIs given to batch_submit_forms
BatchLists == UNION { [1..n -> URIs] : n \in 0..MaxBatch }

\* the modes: a fixed rating, auto_mode, ai_mode, or both flags
BatchModes ==
    { m \in [rating : {3, 5}, auto_mode : BOOLEAN, ai_mode : BOOLEAN] :
        m.auto_mode \/ m.ai_mode => m.rating = 3 }

\* the pages the site serves during a batch: those with at most one grade input
BatchPages == { pg \in SubmitPages : Len(GradeInputs(pg)) <= 1 }

\* batch_submit_forms(uris, rating, auto_mode, ai_mode): results = {}
CallBatch(us, m) ==
    /\ bpc = "idle"
    /\ uris' = us
    /\ mode' = m
    /\ results' = <<>>
    /\ bpc' = "loop"
    /\ UNCHANGED <<bi, batch_result, saved, calls>>
    /\ UNCHANGED <<parserVars, textVars, submitVars, generated>>

\* the head of the loop: the next URI is started
BatchStart ==
    /\ bpc = "loop"
    /\ bi < Len(uris)
    /\ bpc' = "call"
    /\ UNCHANGED <<uris, mode, bi, batch_result, results, saved, calls>>
    /\ UNCHANGED <<parserVars, textVars, submitVars, generated>>

\* result = process_uri(uri, ...); an exception it raises is not caught
BatchProcess ==
    /\ bpc = "call"
    /\ LET u == uris[bi + 1]
           r == BatchRatings(mode)
       IN  \E f \in FetchResults(BatchPages, stringHasText) :
             \E x \in process_uri(u, r, mode.ai_mode, f) :
               /\ calls' = Append(calls, [uri |-> u, ratings |-> r,
                                          use_ai |-> mode.ai_mode,
                                          outcome |-> x.outcome])
               /\ posted' = posted \o x.posts
               /\ IF x.outcome.raised
                  THEN bpc' = "raised" /\ UNCHANGED batch_result
                  ELSE bpc' = "record" /\ batch_result' = x.outcome
    /\ UNCHANGED <<uris, mode, bi, results, saved>>
    /\ UNCHANGED <<sf, uri, ratings, use_ai, page, project_data, ai_ratings, ai_env,
                   grade_data, outcome>>
    /\ UNCHANGED <<parserVars, textVars, generated>>

\* results[uri] = result
BatchRecord ==
    /\ bpc = "record"
    /\ results' = SetItem(results, uris[bi + 1], batch_result)
    /\ bpc' = "save"
    /\ UNCHANGED <<uris, mode, bi, batch_result, saved, calls>>
    /\ UNCHANGED <<parserVars, textVars, submitVars, generated>>

\* the file is rewritten, then the delay, and the iteration is over
BatchSave ==
    /\ bpc = "save"
    /\ saved' = Dump(results)
    /\ bi' = bi + 1
    /\ bpc' = "loop"
    /\ UNCHANGED <<uris, mode, batch_result, results, calls>>
    /\ UNCHANGED <<parserVars, textVars, submitVars, generated>>

\* return results
BatchReturn ==
    /\ bpc = "loop"
    /\ bi = Len(uris)
    /\ bpc' = "returned"
    /\ UNCHANGED <<uris, mode, bi, batch_result, results, saved, calls>>
    /\ UNCHANGED <<parserVars, textVars, submitVars, generated>>

\* generate_ratings has not returned
NoGenerated == [kind |-> "pending", dict |-> EmptyRecord]

\* generate_ratings(uri)
CallRatings(u) ==
    /\ sf = "idle"
    /\ uri' = u
    /\ sf' = "fetch"
    /\ UNCHANGED <<ratings, use_ai, page, project_data, ai_ratings, ai_env, grade_data,
                   posted, outcome>>
    /\ UNCHANGED notSubmit

\* if not project_data: return None
RatingsNone ==
    /\ sf = "check"
    /\ project_data = NoData \/ DOMAIN project_data = {}
    /\ generated' = [kind |-> "None", dict |-> EmptyRecord]
    /\ sf' = "returned"
    /\ UNCHANGED <<uri, ratings, use_ai, page, project_data, ai_ratings, ai_env,
                   grade_data, posted, outcome>>
    /\ UNCHANGED <<parserVars, textVars, batchVars>>

\* return generate_ai_ratings(project_data): project_data['grade_fields'] is
\* read on every path, in generate_random_ratings or in the mapping of the
\* answer, and the handler of the last except reads it again
RatingsGenerate ==
    /\ sf = "check"
    /\ ~(project_data = NoData \/ DOMAIN project_data = {})
    /\ \E env \in AIEnvs :
         /\ ai_env' = env
         /\ IF KeyGrades \notin DOMAIN project_data
            THEN /\ generated' = [kind |-> "KeyError", dict |-> EmptyRecord]
                 /\ UNCHANGED ai_ratings
            ELSE /\ ai_ratings' \in generate_ai_ratings(project_data, grade_ids(page), env)
                 /\ generated' = [kind |-> "dict", dict |-> ai_ratings']
    /\ sf' = "returned"
    /\ UNCHANGED <<uri, ratings, use_ai, page, project_data, grade_data, posted, outcome>>
    /\ UNCHANGED <<parserVars, textVars, batchVars>>

\* clean_text is not called on its own
TextIdle == text = <<>> /\ cleaned = <<>>

\* one call, on any document
Init ==
    /\ TextIdle
    /\ SubmitIdle
    /\ BatchIdle
    /\ generated = NoGenerated
    /\ stringHasText \in BOOLEAN
    /\ returned = EmptyRecord
    /\ \E d \in Docs :
        /\ pc = [t \in Threads |-> IF t = 1 THEN "metadata" ELSE "idle"]
        /\ doc = [t \in Threads |-> IF t = 1 THEN d ELSE Soup(<<>>)]
        /\ result = [t \in Threads |-> EmptyRecord]
        /\ date_placeholders = [t \in Threads |-> EmptyRecord]
        /\ ranStepC = [t \in Threads |-> FALSE]

\* no call yet
InitConc ==
    /\ TextIdle
    /\ SubmitIdle
    /\ BatchIdle
    /\ generated = NoGenerated
    /\ stringHasText \in BOOLEAN
    /\ returned = EmptyRecord
    /\ Idle

\* parse_project_page(html_content) is entered
Call(t, d) ==
    /\ pc[t] = "idle"
    /\ doc' = [doc EXCEPT ![t] = d]
    /\ result' = [result EXCEPT ![t] = FreshRecord(result[t])]
    /\ date_placeholders' = [date_placeholders EXCEPT ![t] = EmptyRecord]
    /\ ranStepC' = [ranStepC EXCEPT ![t] = FALSE]
    /\ pc' = [pc EXCEPT ![t] = "metadata"]
    /\ UNCHANGED <<returned, stringHasText>>
    /\ UNCHANGED notParser

ExtractMetadata(t) ==
    /\ pc[t] = "metadata"
    /\ result' = [result EXCEPT ![t] =
           ExtractJudgingId(doc[t], ExtractGrades(doc[t], ExtractToken(doc[t], @)))]
    /\ pc' = [pc EXCEPT ![t] = "title"]
    /\ UNCHANGED <<doc, date_placeholders, ranStepC, returned, stringHasText>>
    /\ UNCHANGED notParser

ResolveTitleDescription(t) ==
    /\ pc[t] = "title"
    /\ result' = [result EXCEPT ![t] = ResolveDescription(doc[t], ResolveTitle(doc[t], @))]
    /\ pc' = [pc EXCEPT ![t] = "stepA"]
    /\ UNCHANGED <<doc, date_placeholders, ranStepC, returned, stringHasText>>
    /\ UNCHANGED notParser

StepA(t) ==
    /\ pc[t] = "stepA"
    /\ date_placeholders' = [date_placeholders EXCEPT ![t] = HarvestPlaceholders(doc[t])]
    /\ pc' = [pc EXCEPT ![t] = "stepB"]
    /\ UNCHANGED <<doc, result, ranStepC, returned, stringHasText>>
    /\ UNCHANGED notParser

StepB(t) ==
    /\ pc[t] = "stepB"
    /\ result' = [result EXCEPT ![t] =
           StructuredSections(doc[t], @, date_placeholders[t])]
    /\ pc' = [pc EXCEPT ![t] = "fallback"]
    /\ UNCHANGED <<doc, date_placeholders, ranStepC, returned, stringHasText>>
    /\ UNCHANGED notParser

StepC(t) ==
    /\ pc[t] = "fallback"
    /\ NoStructuredSections(result[t])
    /\ result' = [result EXCEPT ![t] =
           FallbackSections(doc[t], @, date_placeholders[t], stringHasText)]
    /\ ranStepC' = [ranStepC EXCEPT ![t] = TRUE]
    /\ pc' = [pc EXCEPT ![t] = "assemble"]
    /\ UNCHANGED <<doc, date_placeholders, returned, stringHasText>>
    /\ UNCHANGED notParser

SkipStepC(t) ==
    /\ pc[t] = "fallback"
    /\ ~NoStructuredSections(result[t])
    /\ pc' = [pc EXCEPT ![t] = "assemble"]
    /\ UNCHANGED <<doc, result, date_placeholders, ranStepC, returned, stringHasText>>
    /\ UNCHANGED notParser

Finish(t) ==
    /\ pc[t] = "assemble"
    /\ result' = [result EXCEPT ![t] = Assemble(@)]
    /\ pc' = [pc EXCEPT ![t] = "done"]
    /\ UNCHANGED <<doc, date_placeholders, ranStepC, returned, stringHasText>>
    /\ UNCHANGED notParser

\* return result: the caller keeps the first record it got for each document
Return(t) ==
    /\ pc[t] = "done"
    /\ returned' = IF doc[t] \in DOMAIN returned THEN returned
                   ELSE Put(returned, doc[t], result[t])
    /\ pc' = [pc EXCEPT ![t] = "idle"]
    /\ UNCHANGED <<doc, result, date_placeholders, ranStepC, stringHasText>>
    /\ UNCHANGED notParser

Step(t) ==
    \/ ExtractMetadata(t)
    \/ ResolveTitleDescription(t)
    \/ StepA(t)
    \/ StepB(t)
    \/ StepC(t)
    \/ SkipStepC(t)
    \/ Finish(t)
    \/ Return(t)

Next == Step(1)

Spec == Init /\ [][Next]_vars

NextConc == \E t \in Threads : (\E d \in ConcDocs : Call(t, d)) \/ Step(t)

SpecConc == InitConc /\ [][NextConc]_vars

(***************************************************************************)
(* Properties of the returned record                                       *)
(***************************************************************************)
Paths(d) == {Descendants(d, <<>>)[i] : i \in 1..Len(Descendants(d, <<>>))}

\* the section entries of a record
SectionKeys(r) == DOMAIN r \ MetadataKeys

HasContentMeta(d, attr, v) ==
    \E q \in Paths(d) :
        LET n == NodeAt(d, q)
        IN  /\ n.tag = "meta"
            /\ attr \in DOMAIN n.attrs /\ n.attrs[attr] = <<v>>
            /\ "content" \in DOMAIN n.attrs

\* no meta element supplies a title
NoTitleMeta(d) ==
    ~HasContentMeta(d, "property", "og:title") /\ ~HasContentMeta(d, "name", "twitter:title")

\* no meta element supplies a description
NoDescriptionMeta(d) ==
    /\ ~HasContentMeta(d, "property", "og:description")
    /\ ~HasContentMeta(d, "name", "description")
    /\ ~HasContentMeta(d, "name", "twitter:description")

\* every way of finding a title fails: no h1 with text, no meta with content
TitleStrategiesFail(d) ==
    /\ \A q \in Paths(d) : NodeAt(d, q).tag = "h1" => Strip(TextAt(d, q)) = <<>>
    /\ NoTitleMeta(d)

\* every way of finding a description fails: no title h1 or no subheader with
\* an italic element, and no meta with content
DescriptionStrategiesFail(d) ==
    /\ \/ \A q \in Paths(d) : NodeAt(d, q).tag = "h1" => Strip(TextAt(d, q)) = <<>>
       \/ \A q \in Paths(d) :
              NodeAt(d, q).tag = "h3" /\ "subheader" \in NodeAt(d, q).cls
                  => FindAllTag(d, q, {"i"}) = <<>>
    /\ NoDescriptionMeta(d)

\* C1: the returned record always has the keys title and description, each
\* holding a string, and a key whose every resolution strategy fails holds "".
C1_TitleDescriptionPresent ==
    \A t \in Threads : pc[t] = "done" =>
        /\ KeyTitle \in DOMAIN result[t]
        /\ KeyDescription \in DOMAIN result[t]
        /\ result[t][KeyTitle] \in Seq(STRING)
        /\ result[t][KeyDescription] \in Seq(STRING)
        /\ TitleStrategiesFail(doc[t]) => result[t][KeyTitle] = <<>>
        /\ DescriptionStrategiesFail(doc[t]) => result[t][KeyDescription] = <<>>

\* a call returned a record whose title and description were both defaulted,
\* on a page that has an h1 and a subheader without usable text
C1_Witness ==
    \E t \in Threads :
        /\ pc[t] = "done"
        /\ TitleStrategiesFail(doc[t]) /\ DescriptionStrategiesFail(doc[t])
        /\ \E q \in Paths(doc[t]) : NodeAt(doc[t], q).tag = "h1"
        /\ result[t][KeyTitle] = <<>> /\ result[t][KeyDescription] = <<>>

\* the matches of grades[<digits>] in a name: <<start, number of digits>>
GradeMatches(s) ==
    { m \in (1..Len(s)) \X (1..Len(s)) :
        /\ s[m[1]] = "grades["
        /\ m[1] + m[2] + 1 <= Len(s)
        /\ \A j \in (m[1] + 1)..(m[1] + m[2]) : s[j] \in Digits
        /\ s[m[1] + m[2] + 1] = "]" }

\* the digit-string captured from a name that has a match
Captured(s) ==
    LET m == CHOOSE m \in GradeMatches(s) : \A o \in GradeMatches(s) : m[1] <= o[1]
    IN  SubSeq(s, m[1] + 1, m[1] + m[2])

\* the positions, in document order, of the inputs named grades[<digits>]
GradeInputPositions(d) ==
    { i \in 1..Len(Descendants(d, <<>>)) :
        LET n == NodeAt(d, Descendants(d, <<>>)[i])
        IN  /\ n.tag = "input"
            /\ "name" \in DOMAIN n.attrs
            /\ GradeMatches(n.attrs["name"]) # {} }

GradeInputAt(d, i) == NodeAt(d, Descendants(d, <<>>)[i])

\* C2: grade_fields is present iff the document has an input named
\* grades[<digits>]; its keys are exactly the captured digit-strings and each
\* value is the value attribute of the (last) input with that id, "" if missing.
C2_GradeFields ==
    \A t \in Threads : pc[t] = "done" =>
        LET d  == doc[t]
            ps == GradeInputPositions(d)
        IN  /\ KeyGrades \in DOMAIN result[t] <=> ps # {}
            /\ ps # {} =>
                /\ DOMAIN result[t][KeyGrades] =
                       {Captured(GradeInputAt(d, i).attrs["name"]) : i \in ps}
                /\ \A i \in ps :
                       LET id == Captured(GradeInputAt(d, i).attrs["name"])
                           n  == GradeInputAt(d, i)
                       IN  (\A j \in ps :
                               Captured(GradeInputAt(d, j).attrs["name"]) = id => j <= i)
                           => result[t][KeyGrades][id] =
                                  IF "value" \in DOMAIN n.attrs THEN n.attrs["value"]
                                  ELSE <<>>

\* a call returned grade_fields with an id whose input has no value attribute
C2_Witness ==
    \E t \in Threads :
        /\ pc[t] = "done"
        /\ KeyGrades \in DOMAIN result[t]
        /\ \E i \in GradeInputPositions(doc[t]) :
               /\ "value" \notin DOMAIN GradeInputAt(doc[t], i).attrs
               /\ result[t][KeyGrades][Captured(GradeInputAt(doc[t], i).attrs["name"])] = <<>>

\* C3: every section entry of the returned record has a non-empty text value,
\* also when the matched heading is followed only by empty paragraphs.
C3_SectionsNonEmpty ==
    \A t \in Threads : pc[t] = "done" =>
        \A k \in SectionKeys(result[t]) : result[t][k] # <<>>

\* C4: a call on a document returns the record every other call on that
\* document returned, whatever was extracted before, between or during it.
C4_SameDocumentSameRecord ==
    /\ \A t \in Threads :
           pc[t] = "done" /\ doc[t] \in DOMAIN returned
               => result[t] = returned[doc[t]]
    /\ \A t, u \in Threads :
           pc[t] = "done" /\ pc[u] = "done" /\ doc[t] = doc[u]
               => result[t] = result[u]

\* a call finishes on a document already extracted once, after another
\* document was extracted too and while the other thread is inside a call
C4_Witness ==
    \E t, u \in Threads :
        /\ pc[t] = "done" /\ doc[t] \in DOMAIN returned
        /\ Cardinality(DOMAIN returned) >= 2
        /\ pc[u] \in {"stepA", "stepB", "fallback"} /\ doc[u] # doc[t]
        /\ SectionKeys(result[t]) # {}

\* the six fixed canonical names
FixedNames == SectionSet \ {NextPrefix}

\* the h2-h4 headings of a document
Headings(d) == {q \in Paths(d) : NodeAt(d, q).tag \in {"h2", "h3", "h4"}}

\* C5: every section key is one of the six fixed names, exactly, or the full
\* normalized text of a heading that starts with "What's next for".
C5_SectionKeys ==
    \A t \in Threads : pc[t] = "done" =>
        \A k \in SectionKeys(result[t]) :
            /\ k \in FixedNames \/ StartsWith(k, NextPrefix)
            /\ \E q \in Headings(doc[t]) : clean_text(TextAt(doc[t], q)) = k

\* Step C gave the key "What's next for B" for a heading written with
\* surrounding and doubled whitespace
C5_Witness ==
    \E t \in Threads :
        /\ pc[t] = "done" /\ ranStepC[t]
        /\ NextB \in DOMAIN result[t]
        /\ \E q \in Headings(doc[t]) :
               /\ TextAt(doc[t], q) # NextB
               /\ clean_text(TextAt(doc[t], q)) = NextB

\* C6: the record has at most 7 section entries and at most one key that
\* starts with "What's next for".
C6_AtMostSevenSections ==
    \A t \in Threads : pc[t] = "done" =>
        /\ Cardinality(SectionKeys(result[t])) <= Len(sections)
        /\ Cardinality({k \in SectionKeys(result[t]) : StartsWith(k, NextPrefix)}) <= 1

\* the first element among the siblings after q, or None
RECURSIVE NextElement(_, _)
NextElement(d, q) ==
    LET n == NextSibling(d, q)
    IN  IF n = None THEN None
        ELSE IF IsTag(NodeAt(d, n)) THEN n
        ELSE NextElement(d, n)

\* the headings of the structured container that carry a canonical name
CanonicalHeadings(d, section) ==
    {q \in Headings(d) :
        /\ StartsWith(q, AppDetails(d))
        /\ IF section = NextPrefix
           THEN StartsWith(clean_text(TextAt(d, q)), NextPrefix)
           ELSE clean_text(TextAt(d, q)) = section}

\* the structured container holds headings for all seven names, each followed
\* by one non-empty paragraph
FullyStructured(d) ==
    /\ AppDetails(d) # None
    /\ \A section \in SectionSet :
        /\ CanonicalHeadings(d, section) # {}
        /\ \A q \in CanonicalHeadings(d, section) :
               /\ NextElement(d, q) # None
               /\ NodeAt(d, NextElement(d, q)).tag = "p"
               /\ TextAt(d, NextElement(d, q)) # <<>>

\* C7: when the structured container holds headings for all 7 canonical names,
\* each followed by one non-empty paragraph, Step B gives exactly 7 section
\* entries and Step C is not executed.
C7_SevenSectionsByStepB ==
    \A t \in Threads :
        pc[t] \in {"fallback", "assemble", "done"} /\ FullyStructured(doc[t]) =>
            /\ Cardinality(SectionKeys(result[t])) = 7
            /\ ~ranStepC[t]
            /\ ~NoStructuredSections(result[t])

\* a call returned the 7 sections of a fully structured page
C7_Witness ==
    \E t \in Threads :
        /\ pc[t] = "done" /\ FullyStructured(doc[t])
        /\ FixedNames \subseteq DOMAIN result[t]
        /\ NextA \in DOMAIN result[t]

\* the record restricted to its section entries
SectionEntries(r) == [k \in SectionKeys(r) |-> r[k]]

\* the node with the children of its child at path p put in that child's place
RECURSIVE Hoist(_, _)
Hoist(n, p) ==
    IF Len(p) = 1
    THEN [n EXCEPT !.kids = SubSeq(n.kids, 1, p[1] - 1) \o n.kids[p[1]].kids
                            \o SubSeq(n.kids, p[1] + 1, Len(n.kids))]
    ELSE [n EXCEPT !.kids[Head(p)] = Hoist(@, Tail(p))]

\* the same page with the content of the structured container at top level
TopLevelOf(d) == Hoist(d, AppDetails(d))

\* the structured container holds canonical headings, each followed by one
\* paragraph, and nothing else but blank text; without the container the page
\* has no structured container and has a root for Step C
HeadingsWithParagraphs(d) ==
    /\ AppDetails(d) # None
    /\ LET kids == NodeAt(d, AppDetails(d)).kids
           els  == SelectSeq(kids, IsTag)
       IN  /\ Len(els) >= 2 /\ Len(els) % 2 = 0
           /\ \A i \in 1..Len(kids) : ~IsTag(kids[i]) => Strip(kids[i].str) = <<>>
           /\ \A i \in 1..Len(els) :
                IF i % 2 = 1
                THEN /\ els[i].tag \in {"h2", "h3", "h4"}
                     /\ \E j \in 1..Len(sections) :
                            HeaderMatchesB(sections[j], clean_text(GetText(els[i])))
                ELSE els[i].tag = "p" /\ els[i].cls = {}
    /\ SectionDiv(d, AppDetails(d)) = None
    /\ "block" \notin NodeAt(d, AppDetails(d)).cls
    /\ AppDetails(TopLevelOf(d)) = None
    /\ MainContent(TopLevelOf(d)) # None

\* C8: for the same sequence of canonical headings each followed by one
\* paragraph, the entries Step B produces inside a structured container are
\* the entries Step C produces when the content sits at top level.
C8_StrategyEquivalence ==
    \A t \in Threads :
        pc[t] = "fallback" /\ HeadingsWithParagraphs(doc[t]) =>
            SectionEntries(result[t]) =
                SectionEntries(parse_project_page(TopLevelOf(doc[t]), stringHasText))

\* every heading element of a document
AnyHeadings(d) ==
    {q \in Paths(d) : NodeAt(d, q).tag \in {"h1", "h2", "h3", "h4", "h5", "h6"}}

\* the document's only heading is a canonical section heading, and a
\* "Date entered:" marker is all that follows it
OnlyHeadingThenMarker(d, q) ==
    /\ AnyHeadings(d) = {q}
    /\ NodeAt(d, q).tag \in {"h2", "h3", "h4"}
    /\ \E j \in 1..Len(sections) :
           HeaderMatchesB(sections[j], clean_text(TextAt(d, q)))
    /\ q[Len(q)] = 1
    /\ Len(NodeAt(d, SubSeq(q, 1, Len(q) - 1)).kids) = 2
    /\ Contains(TextAt(d, NextSibling(d, q)), <<"Date entered:">>)

\* C9: a document whose only heading is a canonical section heading followed
\* only by a "Date entered: <date>" marker yields exactly one section entry,
\* keyed by the section name, whose value is the normalized marker text.
C9_MarkerOnlySection ==
    \A t \in Threads : pc[t] = "done" =>
        \A q \in AnyHeadings(doc[t]) :
            OnlyHeadingThenMarker(doc[t], q) =>
                SectionEntries(result[t]) =
                    (clean_text(TextAt(doc[t], q)) :>
                        clean_text(TextAt(doc[t], NextSibling(doc[t], q))))

\* C10 as stated: a document without heading elements yields title == "",
\* description == "" and no section keys.
C10_NoHeadingsEmptyRecord ==
    \A t \in Threads : pc[t] = "done" /\ AnyHeadings(doc[t]) = {} =>
        /\ result[t][KeyTitle] = <<>>
        /\ result[t][KeyDescription] = <<>>
        /\ SectionKeys(result[t]) = {}

\* C10 amended: a document without heading elements yields no section keys,
\* title == "" unless a title meta element has a content attribute, and
\* description == "" unless a description meta element has one.
C10_NoHeadingsNoSections ==
    \A t \in Threads : pc[t] = "done" /\ AnyHeadings(doc[t]) = {} =>
        /\ SectionKeys(result[t]) = {}
        /\ NoTitleMeta(doc[t]) => result[t][KeyTitle] = <<>>
        /\ NoDescriptionMeta(doc[t]) => result[t][KeyDescription] = <<>>

\* a call returned for a page without headings that has paragraphs reading
\* like a section
C10_Witness ==
    \E t \in Threads :
        /\ pc[t] = "done" /\ AnyHeadings(doc[t]) = {}
        /\ ranStepC[t] /\ MainContent(doc[t]) # None
        /\ \E q \in Paths(doc[t]) :
               NodeAt(doc[t], q).tag = "p" /\ TextAt(doc[t], q) \in SectionSet
        /\ SectionKeys(result[t]) = {}

(***************************************************************************)
(* clean_text on its own                                                   *)
(***************************************************************************)
MaxLen == 4

TextAtoms == {" ", "\n", "\t", "a", "b"}

\* the arguments of clean_text: the strings up to MaxLen atoms, and None
Texts == UNION { [1..n -> TextAtoms] : n \in 0..MaxLen } \cup {NoString}

InitText ==
    /\ text \in Texts
    /\ cleaned = <<>>
    /\ SubmitIdle
    /\ BatchIdle
    /\ generated = NoGenerated
    /\ Idle
    /\ returned = EmptyRecord
    /\ stringHasText = TRUE

\* clean_text(text), then clean_text of what it returned
CleanText ==
    /\ Len(cleaned) < 2
    /\ cleaned' = Append(cleaned,
                         clean_text(IF cleaned = <<>> THEN text ELSE cleaned[Len(cleaned)]))
    /\ UNCHANGED text
    /\ UNCHANGED notText

NextText == CleanText

SpecText == InitText /\ [][NextText]_vars

\* an empty, absent or whitespace-only string
Blank(t) == t = NoString \/ \A i \in 1..Len(t) : t[i] \in WS

\* C11: clean_text(clean_text(x)) == clean_text(x) for every string x, and
\* every empty, absent or whitespace-only x is mapped to "".
C11_CleanTextIdempotent ==
    /\ Len(cleaned) = 2 => cleaned[2] = cleaned[1]
    /\ Len(cleaned) >= 1 /\ Blank(text) => cleaned[1] = <<>>

\* clean_text was applied twice to a string with inner, leading and trailing
\* whitespace, which the first call changed
C11_Witness ==
    /\ Len(cleaned) = 2
    /\ text # NoString /\ Len(text) >= 3
    /\ text[1] \in WS /\ text[Len(text)] \in WS
    /\ cleaned[1] # text /\ cleaned[1] # <<>>

(***************************************************************************)
(* Properties of the metadata                                              *)
(***************************************************************************)
\* the positions, in document order, of the elements with a tag and an
\* attribute of a given value
Positions(d, tag, attr, v) ==
    { i \in 1..Len(Descendants(d, <<>>)) :
        LET n == NodeAt(d, Descendants(d, <<>>)[i])
        IN  n.tag = tag /\ attr \in DOMAIN n.attrs /\ n.attrs[attr] = v }

Lowest(S) == CHOOSE i \in S : \A j \in S : i <= j

ElementAt(d, i) == NodeAt(d, Descendants(d, <<>>)[i])

\* a meta strategy gives a value when the (first) meta element of that kind
\* has a content attribute
MetaGives(d, attr, v) ==
    /\ Positions(d, "meta", attr, <<v>>) # {}
    /\ "content" \in DOMAIN ElementAt(d, Lowest(Positions(d, "meta", attr, <<v>>))).attrs

MetaValue(d, attr, v) ==
    clean_text(ElementAt(d, Lowest(Positions(d, "meta", attr, <<v>>))).attrs["content"])

\* the h1 elements whose normalized text is not empty
TitleHeadings(d) ==
    { i \in 1..Len(Descendants(d, <<>>)) :
        /\ ElementAt(d, i).tag = "h1"
        /\ clean_text(TextAt(d, Descendants(d, <<>>)[i])) # <<>> }

\* C12: the title is the normalized text of the first h1 with non-empty
\* normalized text; without such an h1 it is the content of og:title if that
\* gives a value, otherwise of twitter:title, and "" only if all of them fail.
C12_TitleResolution ==
    \A t \in Threads : pc[t] = "done" =>
        LET d == doc[t]
        IN  result[t][KeyTitle] =
                IF TitleHeadings(d) # {}
                THEN clean_text(TextAt(d, Descendants(d, <<>>)[Lowest(TitleHeadings(d))]))
                ELSE IF MetaGives(d, "property", "og:title")
                THEN MetaValue(d, "property", "og:title")
                ELSE IF MetaGives(d, "name", "twitter:title")
                THEN MetaValue(d, "name", "twitter:title")
                ELSE <<>>

\* C13: the italic element of the subheader after the title h1 is looked for
\* only if a title h1 exists; when it gives no description, the description is
\* the content of og:description if that gives a value, otherwise of the
\* description meta, otherwise of twitter:description, and "" only if all fail.
C13_DescriptionResolution ==
    \A t \in Threads : pc[t] = "done" =>
        LET d == doc[t]
        IN  /\ TitleHeadings(d) = {} => DescriptionElement(d) = None
            /\ result[t][KeyDescription] =
                IF DescriptionElement(d) # None
                THEN clean_text(TextAt(d, DescriptionElement(d)))
                ELSE IF MetaGives(d, "property", "og:description")
                THEN MetaValue(d, "property", "og:description")
                ELSE IF MetaGives(d, "name", "description")
                THEN MetaValue(d, "name", "description")
                ELSE IF MetaGives(d, "name", "twitter:description")
                THEN MetaValue(d, "name", "twitter:description")
                ELSE <<>>

TokenInputs(d) == Positions(d, "input", "name", <<"authenticity_token">>)

\* C14 as stated: authenticity_token is present iff the document has an input
\* named exactly authenticity_token, and its value is that input's value
\* attribute; no null or sentinel is stored for an absent token.
C14_TokenIffInput ==
    \A t \in Threads : pc[t] = "done" =>
        /\ KeyToken \in DOMAIN result[t] <=> TokenInputs(doc[t]) # {}
        /\ KeyToken \in DOMAIN result[t] =>
               \E i \in TokenInputs(doc[t]) :
                   /\ "value" \in DOMAIN ElementAt(doc[t], i).attrs
                   /\ result[t][KeyToken] = ElementAt(doc[t], i).attrs["value"]

\* C14: authenticity_token is present iff the first input in document order
\* named exactly authenticity_token has a value attribute; its value is then
\* that attribute, and nothing is stored otherwise.
C14_TokenIffFirstInputHasValue ==
    \A t \in Threads : pc[t] = "done" =>
        LET d == doc[t]
        IN  /\ KeyToken \in DOMAIN result[t] <=>
                   /\ TokenInputs(d) # {}
                   /\ "value" \in DOMAIN ElementAt(d, Lowest(TokenInputs(d))).attrs
            /\ KeyToken \in DOMAIN result[t] =>
                   /\ result[t][KeyToken] = ElementAt(d, Lowest(TokenInputs(d))).attrs["value"]
                   /\ result[t][KeyToken] # NoString

\* a call returned no token for a page whose first token input has no value
\* attribute while a later one has
C14_Witness ==
    \E t \in Threads :
        /\ pc[t] = "done"
        /\ KeyToken \notin DOMAIN result[t]
        /\ \E i \in TokenInputs(doc[t]) : "value" \in DOMAIN ElementAt(doc[t], i).attrs

\* the matches of /submissions/\d+-[^/]+/submission_judgings/(\d+) in s, as
\* <<start, digits of the submission, length of the slug, digits of the group>>
JudgingMatches(s) ==
    LET Starts == { i \in 1..Len(s) : s[i] = "/submissions/" }
        Ns(i) == { n \in 1..(Len(s) - i) :
                     /\ i + n + 1 <= Len(s)
                     /\ \A j \in (i + 1)..(i + n) : s[j] \in Digits
                     /\ s[i + n + 1] = "-" }
        Ls(dash) == { l \in 1..(Len(s) - dash) :
                        /\ dash + l + 1 <= Len(s)
                        /\ \A j \in (dash + 1)..(dash + l) : s[j] \notin SlashAtoms
                        /\ s[dash + l + 1] = "/submission_judgings/" }
        Ks(mark) == { k \in 1..(Len(s) - mark) :
                        /\ \A j \in (mark + 1)..(mark + k) : s[j] \in Digits
                        /\ mark + k < Len(s) => s[mark + k + 1] \notin Digits }
    IN  UNION { UNION { UNION { { <<i, n, l, k>> : k \in Ks(i + n + l + 2) } :
                                l \in Ls(i + n + 1) } :
                        n \in Ns(i) } :
                i \in Starts }

\* the forms, in document order, whose action has a match
JudgingForms(d) ==
    { i \in 1..Len(Descendants(d, <<>>)) :
        /\ ElementAt(d, i).tag = "form"
        /\ "action" \in DOMAIN ElementAt(d, i).attrs
        /\ JudgingMatches(ElementAt(d, i).attrs["action"]) # {} }

\* the digits after /submission_judgings/ in the leftmost match
TrailingDigits(s) ==
    LET m == CHOOSE m \in JudgingMatches(s) : \A o \in JudgingMatches(s) : m[1] <= o[1]
        mark == m[1] + m[2] + m[3] + 2
    IN  SubSeq(s, mark + 1, mark + m[4])

\* C15: submission_judging_id is present iff the document has a form whose
\* action matches /submissions/<digits>-<slug>/submission_judgings/<digits>,
\* and its value is the trailing digit string of that (first such) action.
C15_JudgingId ==
    \A t \in Threads : pc[t] = "done" =>
        LET d == doc[t]
        IN  /\ KeyJudgingId \in DOMAIN result[t] <=> JudgingForms(d) # {}
            /\ JudgingForms(d) # {} =>
                   result[t][KeyJudgingId] =
                       TrailingDigits(ElementAt(d, Lowest(JudgingForms(d))).attrs["action"])

\* a call returned the judging id of the first of two matching forms, whose
\* action has text before the pattern and a slug with dashes
C15_Witness ==
    \E t \in Threads :
        /\ pc[t] = "done"
        /\ Cardinality(JudgingForms(doc[t])) = 2
        /\ result[t][KeyJudgingId] = <<"7">>

(***************************************************************************)
(* Properties of the order of the strategies                               *)
(***************************************************************************)
\* C19: Step C is executed only if Step B emitted no section entry; after a
\* Step B that emitted an entry, also only a "What's next for ..." one, Step C
\* is skipped and the entries of Step B are left as they are.
C19_StepCOnlyAfterEmptyStepB ==
    [][\A t \in Threads :
           pc[t] = "fallback" /\ pc'[t] = "assemble" /\ SectionKeys(result[t]) # {}
               => ~ranStepC'[t] /\ result'[t] = result[t]]_vars

\* what the first heading matching a canonical name gives in Step B
FirstEntryB(d, ph, section) ==
    IF AppDetails(d) = None THEN EmptyRecord
    ELSE StepBSection(d, EmptyRecord, ph, AppDetails(d), section)

\* what the first heading matching a canonical name gives in Step C
FirstEntryC(d, ph, section, st) ==
    IF MainContent(d) = None \/ HeadersC(d, MainContent(d), section) = <<>>
    THEN EmptyRecord
    ELSE StepCHeader(d, EmptyRecord, ph, HeadersC(d, MainContent(d), section)[1], st)

\* C20: for each canonical name only the first matching h2-h4 heading in
\* document order is used, in Step B and in Step C: every section entry under
\* that name is the one the first matching heading gives.
C20_FirstHeadingOnly ==
    \A t \in Threads : pc[t] = "done" =>
        \A s \in SectionSet : \A k \in SectionKeys(result[t]) :
            HeaderMatchesB(s, k) =>
                LET b == FirstEntryB(doc[t], date_placeholders[t], s)
                    c == FirstEntryC(doc[t], date_placeholders[t], s, stringHasText)
                IN  \/ k \in DOMAIN b /\ result[t][k] = b[k]
                    \/ ranStepC[t] /\ k \in DOMAIN c /\ result[t][k] = c[k]

(***************************************************************************)
(* One call of submit_form                                                 *)
(***************************************************************************)
InitSubmit ==
    /\ SubmitIdle
    /\ BatchIdle
    /\ generated = NoGenerated
    /\ TextIdle
    /\ Idle
    /\ returned = EmptyRecord
    /\ stringHasText \in BOOLEAN

\* the callers pass use_ai=True without ratings
NextSubmit ==
    \/ \E u \in URIs : \E r \in RatingArgs : \E ai \in BOOLEAN :
           (ai => r = NoRatings) /\ CallSubmit(u, r, ai)
    \/ Fetch
    \/ Reject
    \/ RateAI
    \/ RateInt
    \/ RateDict
    \/ RateRandom
    \/ Post

SpecSubmit == InitSubmit /\ [][NextSubmit]_vars

(***************************************************************************)
(* One call of batch_submit_forms                                          *)
(***************************************************************************)
InitBatch == InitSubmit

NextBatch ==
    \/ \E us \in BatchLists : \E m \in BatchModes : CallBatch(us, m)
    \/ BatchStart
    \/ BatchProcess
    \/ BatchRecord
    \/ BatchSave
    \/ BatchReturn

SpecBatch == InitBatch /\ [][NextBatch]_vars

(***************************************************************************)
(* One call of generate_ratings                                            *)
(***************************************************************************)
InitRatings == InitSubmit

NextRatings ==
    \/ \E u \in URIs : CallRatings(u)
    \/ Fetch
    \/ RatingsNone
    \/ RatingsGenerate

SpecRatings == InitRatings /\ [][NextRatings]_vars

(***************************************************************************)
(* Properties of submit_form                                               *)
(***************************************************************************)
\* what the fetched page has, read off the document
PageHasToken ==
    /\ TokenInputs(page) # {}
    /\ "value" \in DOMAIN ElementAt(page, Lowest(TokenInputs(page))).attrs

PageHasGrades == GradeInputPositions(page) # {}

PageHasJudgingId == JudgingForms(page) # {}

\* the grade ids of the fetched page
PageGradeIds ==
    { Captured(GradeInputAt(page, i).attrs["name"]) : i \in GradeInputPositions(page) }

\* C16: a POST is sent only when the fetched page yielded authenticity_token,
\* grade_fields and submission_judging_id; when the fetch failed or one of
\* them is missing (looked at in that order) the call returns success=False
\* with the error of the first failure and nothing is sent.
C16_PostOnlyWithAllThree ==
    sf = "returned" \/ posted # <<>> =>
        LET fetched == project_data # NoData
            token   == PageHasToken
            grades  == PageHasGrades
            judging == PageHasJudgingId
            Refused(error) == /\ outcome = Outcome(FALSE, error, 0, FALSE)
                              /\ posted = <<>>
        IN  /\ posted # <<>> =>
                   /\ fetched /\ token /\ grades /\ judging
                   /\ {KeyToken, KeyGrades, KeyJudgingId} \subseteq DOMAIN project_data
            /\ sf = "returned" =>
                   /\ ~fetched => Refused(<<"Failed to fetch project data">>)
                   /\ fetched /\ ~token => Refused(<<"Authenticity token not found">>)
                   /\ fetched /\ token /\ ~grades => Refused(<<"Grade fields not found">>)
                   /\ fetched /\ token /\ grades /\ ~judging =>
                          Refused(<<"Submission judging ID not found">>)

\* the call returned for a page without a token (its input has no value) and
\* without grade inputs: the token error was reported and nothing was sent
C16_Witness ==
    /\ sf = "returned"
    /\ project_data # NoData
    /\ TokenInputs(page) # {} /\ ~PageHasToken /\ ~PageHasGrades /\ PageHasJudgingId
    /\ outcome.error = <<"Authenticity token not found">>
    /\ posted = <<>>

\* the number a string of decimal digits denotes
RECURSIVE DecimalValue(_)
DecimalValue(str) ==
    IF str = <<>> THEN 0
    ELSE 10 * DecimalValue(SubSeq(str, 1, Len(str) - 1))
             + (CHOOSE n \in 0..9 : DigitOf[n + 1] = str[Len(str)])

IsDecimal(str, n) ==
    /\ str # <<>>
    /\ \A i \in 1..Len(str) : str[i] \in Digits
    /\ DecimalValue(str) = n

\* the grades[...] fields of a posted form
GradeKeys(data) == { k \in DOMAIN data : k[1] = "grades[" }

KeysOf(ids) == { <<"grades[">> \o id \o <<"]">> : id \in ids }

\* C17: without use_ai, ratings an int posts that rating for every grade id
\* of the page; ratings None posts a rating in {2,3,4} for every grade id;
\* ratings a dict posts exactly the given id-to-rating pairs.
C17_RatingModes ==
    \A i \in 1..Len(posted) : ~use_ai =>
        LET data == posted[i].data
        IN  /\ ratings.kind = "int" =>
                /\ GradeKeys(data) = KeysOf(PageGradeIds)
                /\ \A k \in GradeKeys(data) : IsDecimal(data[k], ratings.int)
            /\ ratings.kind = "None" =>
                /\ GradeKeys(data) = KeysOf(PageGradeIds)
                /\ \A k \in GradeKeys(data) : \E n \in {2, 3, 4} : IsDecimal(data[k], n)
            /\ ratings.kind = "dict" =>
                /\ GradeKeys(data) = KeysOf(DOMAIN ratings.dict)
                /\ \A id \in DOMAIN ratings.dict :
                       IsDecimal(data[<<"grades[">> \o id \o <<"]">>], ratings.dict[id])

\* a form was posted with ratings None for a page with several grade ids,
\* which got different ratings
C17_Witness ==
    /\ Len(posted) = 1
    /\ ~use_ai /\ ratings.kind = "None"
    /\ \E k1, k2 \in GradeKeys(posted[1].data) : posted[1].data[k1] # posted[1].data[k2]

\* C18: every value of the mapping generate_ai_ratings returned is a rating
\* in 1..5, whatever the answer of the AI model, and every key is a grade id
\* of the page.
C18_AIRatingsInRange ==
    \A id \in DOMAIN ai_ratings :
        /\ ai_ratings[id] \in 1..5
        /\ id \in PageGradeIds

(***************************************************************************)
(* Properties of the search for sections                                   *)
(***************************************************************************)
\* the root the fallback is to search: the container of Step B if there is
\* one, else the main element, else the body
ExpectedRoot(d) ==
    IF AppDetails(d) # None THEN AppDetails(d)
    ELSE IF \E q \in Paths(d) : NodeAt(d, q).tag = "main"
    THEN Descendants(d, <<>>)[Lowest({i \in 1..Len(Descendants(d, <<>>)) :
                                         ElementAt(d, i).tag = "main"})]
    ELSE IF \E q \in Paths(d) : NodeAt(d, q).tag = "body"
    THEN Descendants(d, <<>>)[Lowest({i \in 1..Len(Descendants(d, <<>>)) :
                                         ElementAt(d, i).tag = "body"})]
    ELSE None

\* q lies below p
IsBelow(q, p) == Len(q) > Len(p) /\ SubSeq(q, 1, Len(p)) = p

\* Step B left the record without section entries
StepBEmpty(d, ph) == SectionKeys(StructuredSections(d, EmptyRecord, ph)) = {}

\* C21: when Step C runs, it searches the container of Step B if there is
\* one (found by either class), else the main element, else the body: every
\* section entry comes from a heading below that root.
C21_StepCRoot ==
    \A t \in Threads :
        pc[t] = "done" /\ ranStepC[t] /\ StepBEmpty(doc[t], date_placeholders[t]) =>
            \A k \in SectionKeys(result[t]) :
                /\ ExpectedRoot(doc[t]) # None
                /\ \E q \in Paths(doc[t]) :
                       /\ IsBelow(q, ExpectedRoot(doc[t]))
                       /\ NodeAt(doc[t], q).tag \in {"h2", "h3", "h4"}
                       /\ clean_text(TextAt(doc[t], q)) = k

\* the nodes that follow the node at q under its parent, at most n of them
FollowingSiblings(d, q, n) ==
    LET kids == NodeAt(d, SubSeq(q, 1, Len(q) - 1)).kids
        i    == q[Len(q)]
    IN  SubSeq(kids, i + 1, IF i + n < Len(kids) THEN i + n ELSE Len(kids))

\* the nodes of ns before its first h1-h4
UpToHeading(ns) ==
    LET hs == {i \in 1..Len(ns) : ns[i].tag \in {"h1", "h2", "h3", "h4"}}
    IN  IF hs = {} THEN ns ELSE SubSeq(ns, 1, Lowest(hs) - 1)

\* the text Step C is to accumulate from the nodes ns: that of paragraphs and
\* of nodes that bear text
ScanText(ns, st) ==
    LET F[i \in 0..Len(ns)] ==
            IF i = 0 THEN <<>>
            ELSE IF ns[i].tag = "p"
                    \/ ((IsTag(ns[i]) \/ st) /\ Strip(GetText(ns[i])) # <<>>)
                 THEN F[i - 1] \o <<" ">> \o Strip(GetText(ns[i]))
                 ELSE F[i - 1]
    IN  F[Len(ns)]

\* C22: in Step C the value of a section is built from at most the 5 sibling
\* nodes after a heading of that name and from none at or after the first
\* h1, h2, h3 or h4 among them.
C22_StepCScanStopsAtHeading ==
    \A t \in Threads :
        pc[t] = "done" /\ ranStepC[t] /\ StepBEmpty(doc[t], date_placeholders[t]) =>
            \A k \in SectionKeys(result[t]) :
                \E q \in Paths(doc[t]) :
                    /\ NodeAt(doc[t], q).tag \in {"h2", "h3", "h4"}
                    /\ clean_text(TextAt(doc[t], q)) = k
                    /\ LET c == ScanText(UpToHeading(FollowingSiblings(doc[t], q, 5)),
                                         stringHasText)
                       IN  IF c # <<>> THEN result[t][k] = clean_text(c)
                           ELSE /\ k \in DOMAIN date_placeholders[t]
                                /\ result[t][k] = date_placeholders[t][k]

\* C23: in Step B the value for a matched heading is the ancestor-block
\* result if that has text, otherwise the sibling-walk result if that has
\* text, otherwise the Step A placeholder of the resolved name if there is
\* one: the placeholder is used whenever, and only when, both are without text.
C23_StepBStrategyOrder ==
    \A t \in Threads : pc[t] = "fallback" /\ AppDetails(doc[t]) # None =>
        \A s \in SectionSet :
            LET d      == doc[t]
                ph     == date_placeholders[t]
                header == SectionHeaderB(d, AppDetails(d), s)
                name   == SectionNameB(d, header, s)
                div    == SectionDiv(d, header)
                block  == IF div # None THEN BlockContent(d, div, header, s) ELSE <<>>
                walk   == SiblingWalk(d, NextSibling(d, header), <<>>)
            IN  header # None =>
                    IF Strip(block) # <<>>
                    THEN name \in DOMAIN result[t] /\ result[t][name] = clean_text(block)
                    ELSE IF Strip(walk) # <<>>
                    THEN name \in DOMAIN result[t] /\ result[t][name] = clean_text(walk)
                    ELSE name \in DOMAIN ph =>
                             name \in DOMAIN result[t] /\ result[t][name] = ph[name]

\* C24: Step A records a placeholder under a canonical name only for a
\* marker whose nearest preceding sibling heading has normalized text equal
\* to that name, or starting with "What's next for" (the key is then that
\* text); a heading that only contains a name records nothing for it.
C24_PlaceholderNeedsExactHeading ==
    \A t \in Threads : pc[t] \in {"stepB", "fallback", "assemble", "done"} =>
        \A k \in DOMAIN date_placeholders[t] :
            \E i \in 1..Len(DateElems(doc[t])) :
                LET header == ClosestHeader(doc[t], DateElems(doc[t])[i])
                IN  /\ header # None
                    /\ clean_text(TextAt(doc[t], header)) = k
                    /\ \/ k \in SectionSet \ {NextPrefix}
                       \/ k[1] = "What's next for"

\* the text the walk of Step B is to accumulate from the nodes ns: that of
\* paragraphs and of div elements of class details
WalkText(ns) ==
    LET F[i \in 0..Len(ns)] ==
            IF i = 0 THEN <<>>
            ELSE IF ns[i].tag = "p" \/ (ns[i].tag = "div" /\ "details" \in ns[i].cls)
                 THEN F[i - 1] \o <<" ">> \o Strip(GetText(ns[i]))
                 ELSE F[i - 1]
    IN  F[Len(ns)]

\* all the nodes that follow the node at q under its parent
AllFollowingSiblings(d, q) ==
    FollowingSiblings(d, q, Len(NodeAt(d, SubSeq(q, 1, Len(q) - 1)).kids))

\* C25: the sibling walk of Step B accumulates text only from the following
\* siblings of the heading that are paragraphs or details containers, and
\* stops at the first following sibling that is an h1-h4: nothing at or after
\* it contributes to the value.
C25_StepBWalk ==
    \A t \in Threads : pc[t] = "fallback" /\ AppDetails(doc[t]) # None =>
        \A s \in SectionSet :
            LET d      == doc[t]
                header == SectionHeaderB(d, AppDetails(d), s)
                name   == SectionNameB(d, header, s)
                c      == WalkText(UpToHeading(AllFollowingSiblings(d, header)))
            IN  header # None /\ SectionDiv(d, header) = None =>
                    /\ c # <<>> =>
                           name \in DOMAIN result[t] /\ result[t][name] = clean_text(c)
                    /\ c = <<>> /\ name \notin DOMAIN date_placeholders[t] =>
                           name \notin DOMAIN result[t]

\* Step B took the value of Inspiration from a paragraph and a details
\* container, passing over a span and a string, and stopped at an h1 that a
\* paragraph follows
C25_Witness ==
    \E t \in Threads :
        /\ pc[t] = "fallback"
        /\ AppDetails(doc[t]) # None
        /\ LET header == SectionHeaderB(doc[t], AppDetails(doc[t]), <<"Inspiration">>)
           IN  /\ header # None
               /\ \E i \in 1..Len(AllFollowingSiblings(doc[t], header)) :
                      /\ AllFollowingSiblings(doc[t], header)[i].tag = "h1"
                      /\ i < Len(AllFollowingSiblings(doc[t], header))
                      /\ \E j \in 1..(i - 1) :
                             AllFollowingSiblings(doc[t], header)[j].tag = "span"
        /\ result[t][<<"Inspiration">>] = <<"x", " ", "y">>

(***************************************************************************)
(* Properties of clean_text                                                *)
(***************************************************************************)
\* the atoms of a string that are not whitespace, in order
Words(str) == LET NotWS(a) == a \notin WS IN SelectSeq(str, NotWS)

\* the position in str of its k-th atom that is not whitespace
WordAt(str, k) ==
    CHOOSE i \in 1..Len(str) :
        str[i] \notin WS /\ Cardinality({j \in 1..i : str[j] \notin WS}) = k

\* C26: for a non-empty input, clean_text returns the input with each maximal
\* run of whitespace replaced by exactly one space and without leading or
\* trailing whitespace: the result never starts or ends with a space and
\* never has two adjacent whitespace characters.
C26_CleanTextNormalForm ==
    Len(cleaned) >= 1 /\ text # NoString /\ text # <<>> =>
        LET r == cleaned[1]
        IN  /\ r # <<>> => r[1] \notin WS /\ r[Len(r)] \notin WS
            /\ \A i \in 1..Len(r) : r[i] \in WS => r[i] = " "
            /\ \A i \in 1..(Len(r) - 1) : ~(r[i] \in WS /\ r[i + 1] \in WS)
            /\ Words(r) = Words(text)
            /\ \A k \in 1..(Len(Words(text)) - 1) :
                   (WordAt(r, k + 1) = WordAt(r, k) + 2)
                       <=> (WordAt(text, k + 1) > WordAt(text, k) + 1)

\* clean_text replaced a run of two whitespace characters between two words
\* by one space
C26_Witness ==
    /\ Len(cleaned) >= 1
    /\ text # NoString /\ Len(text) = 4
    /\ text[1] \notin WS /\ text[2] \in WS /\ text[3] \in WS /\ text[4] \notin WS
    /\ text[2] # text[3]
    /\ cleaned[1] = <<text[1], " ", text[4]>>

(***************************************************************************)
(* Properties of the AI ratings                                            *)
(***************************************************************************)
\* the rating step of submit_form is over
Rated == sf = "post" \/ (sf = "returned" /\ (posted # <<>> \/ outcome.raised))

\* no AI rating can be produced: the openai module or the API key is
\* missing, the API call raises, its answer is not JSON, or the page has
\* fewer than 4 grade fields
NoAIRating(ids) ==
    \/ ~ai_env.available
    \/ ~ai_env.key
    \/ ai_env.answer.kind \in {"raise", "text"}
    \/ Cardinality(ids) < 4

\* C27: when no AI rating can be produced, generate_ai_ratings returns a
\* rating in {2,3,4} for every grade field id of the page, and submit_form
\* with use_ai posts these ratings, one for every grade field.
C27_RandomFallback ==
    use_ai /\ Rated =>
        LET ids == PageGradeIds
        IN  NoAIRating(ids) =>
                /\ DOMAIN ai_ratings = ids
                /\ \A id \in ids : ai_ratings[id] \in {2, 3, 4}
                /\ \A i \in 1..Len(posted) :
                       /\ GradeKeys(posted[i].data) = KeysOf(ids)
                       /\ \A id \in ids :
                              IsDecimal(posted[i].data[<<"grades[">> \o id \o <<"]">>],
                                        ai_ratings[id])

\* with the module and the key at hand the API answered text that is not
\* JSON, for a page with four or more grade fields, and the form was posted
\* with random ratings
C27_Witness ==
    /\ sf = "returned" /\ use_ai /\ Len(posted) = 1
    /\ ai_env.available /\ ai_env.key /\ ai_env.answer.kind = "text"
    /\ Cardinality(PageGradeIds) >= 4
    /\ \E a, b \in DOMAIN ai_ratings : ai_ratings[a] # ai_ratings[b]

\* C29: in every rating mode but the dict one (an int, random, AI, AI with
\* the random fallback) the posted form has a grades[id] field for every id
\* of the page's grade_fields and for no other id, also when the page has
\* more than 4 grade fields.
C29_EveryGradeFieldPosted ==
    \A i \in 1..Len(posted) :
        use_ai \/ ratings.kind # "dict" =>
            GradeKeys(posted[i].data) = KeysOf(PageGradeIds)

(***************************************************************************)
(* Properties of batch_submit_forms and generate_ratings                   *)
(***************************************************************************)
\* the action model of submit_form and submit_form as one step agree
SubmitFormAgrees ==
    sf = "returned" =>
        \E x \in submit_form(uri, ratings, use_ai, [page |-> page, data |-> project_data]) :
            x.outcome = outcome /\ x.posts = posted

\* the last of the first n calls of process_uri made for the URI u
LastCall(u, n) ==
    calls[CHOOSE j \in 1..n : calls[j].uri = u /\ \A k \in (j + 1)..n : calls[k].uri # u]

\* items is a mapping that holds, for exactly the first n URIs given, what
\* the last call for that URI returned, as Json(result)
HoldsResults(items, n, Json(_)) ==
    /\ {items[i].key : i \in 1..Len(items)} = {uris[j] : j \in 1..n}
    /\ \A i, j \in 1..Len(items) : items[i].key = items[j].key => i = j
    /\ \A i \in 1..Len(items) : items[i].value = Json(LastCall(items[i].key, n).outcome)

SameResult(o) == o

\* C28: batch_submit_forms processes the URIs one at a time in list order:
\* the j-th call of process_uri is for the j-th URI, and it is made only when
\* the results of the calls before it are recorded and saved; the file holds
\* the results of exactly the URIs whose iteration is over (there is no file
\* before the first is), and the mapping returned has an entry, the result
\* of the last call for it, for every URI given.
C28_BatchProgress ==
    /\ \A j \in 1..Len(calls) : j <= Len(uris) /\ calls[j].uri = uris[j]
    /\ \A j \in 1..Len(calls) :
           /\ calls[j].use_ai = mode.ai_mode
           /\ calls[j].ratings = BatchRatings(mode)
    /\ Len(calls) = IF bpc \in {"record", "save", "raised"} THEN bi + 1 ELSE bi
    /\ bpc = "save" => HoldsResults(results, bi + 1, SameResult)
    /\ bpc \in {"loop", "call", "returned", "raised"} => HoldsResults(results, bi, SameResult)
    /\ saved.exists <=> bi > 0
    /\ HoldsResults(saved.content, bi, JsonOf)
    /\ bpc = "returned" => bi = Len(uris)

\* a batch of two different URIs has returned two different results
C28_Witness ==
    /\ bpc = "returned"
    /\ Len(uris) = 2 /\ uris[1] # uris[2]
    /\ Len(results) = 2 /\ results[1].value # results[2].value
    /\ results[1].value.success
    /\ Len(saved.content) = 2

\* the same URI given twice, with a different result the second time
C28_WitnessTwice ==
    /\ bpc = "returned"
    /\ Len(uris) = 2 /\ uris[1] = uris[2]
    /\ calls[1].outcome # calls[2].outcome

\* a batch that ended with an exception after one URI was saved
C28_WitnessRaised ==
    bpc = "raised" /\ bi = 1

\* C30: generate_ratings returns a rating mapping or None whatever the fetch
\* gave, a page without grade fields included: no exception escapes it.
C30_RatingsOrNone ==
    sf = "returned" =>
        \/ generated.kind = "None"
        \/ /\ generated.kind = "dict"
           /\ KeyGrades \in DOMAIN project_data
           /\ DOMAIN generated.dict \subseteq DOMAIN project_data[KeyGrades]

\* generate_ratings returns a mapping or None for the pages with grade fields
C30_RatingsForGradedPages ==
    sf = "returned" /\ generated.kind = "KeyError" =>
        /\ project_data # NoData
        /\ KeyGrades \notin DOMAIN project_data
        /\ GradeInputs(page) = <<>>

=============================================================================
